---- MODULE Spec2Model ----
(***************************************************************************)
(* A model of the enarx keep loader's syscall-proxy protocol:              *)
(*   - the shim syscall dispatcher   (internal/syscall/src/lib.rs)         *)
(*   - the SGX shim exception handler (internal/shim-sgx/src/handler)      *)
(*   - the SGX host Thread::enter loop (src/backend/sgx/mod.rs)            *)
(*   - the KVM Keep, its cpu pool and Thread::enter (src/backend/kvm)      *)
(*   - the host execution loop exec_keep (src/main.rs)                     *)
(*                                                                         *)
(* Machine words are scaled: a 64-bit register is a natural below          *)
(* UsizeLimit, a 32-bit value a natural below U32Limit.  Only the order    *)
(* of the limits matters to the code that is modelled.                     *)
(***************************************************************************)
EXTENDS Integers, Sequences, FiniteSets, TLC

VARIABLES
    \* ---- shim dispatcher (one call of SyscallHandler::syscall) ----
    dargs,      \* <<a, b, c, d, e, f, nr>> of the call
    dhret,      \* what the individual handler returned
    dret,       \* the Result returned by syscall(), or NoCall
    \* ---- SGX: host thread, Block, enclave ----
    spc,        \* position of the host thread
    how,        \* the local `how` of Thread::enter
    sexit,      \* what sgx::enclave::Thread::enter returned last
    sblock,     \* the Thread's sallyport Block message, as words
    srun,       \* the enclave is executing on the Thread's TCS
    epc,        \* position of the code inside the enclave
    ssa,        \* the payload's State Save Area (gpr)
    strap,      \* history: the payload's gpr at the trap being serviced
    slast,      \* history: the exit Thread::enter dispatched on last
    sentry,     \* history: how, and after what, the enclave was entered last
    scmd,       \* history: what the last enter() returned and replies since
    sraced,     \* history: the host touched the Block while the enclave ran
    \* ---- KVM: Keep, cpu pool, host threads, guests ----
    cpus,       \* Keep.cpus, the pool of free Cpu slots
    regions,    \* Keep.regions
    memory,     \* Keep.memory
    kth,        \* the host threads: position, Thread.cpu, locals of enter
    kblock,     \* per Cpu: the sallyport Block message, as words
    krun,       \* per Cpu: the vCPU is executing
    kraced,     \* history: Cpus whose Block the host touched while it ran
    \* ---- SGX shim: one call of Handler::write_str ----
    wstr,       \* the bytes of the string s
    wpc,        \* position of the call
    wreq,       \* the request proxied to the host, or NoWrite
    wrep,       \* the host's reply
    wout,       \* how the call ended
    \* ---- the loader's other components, one record each ----
    kb,         \* the KVM Builder: the Keep it wraps, result of the last map
    snp,        \* the SNP Builder: regions, sallyports, launcher updates
    boot,       \* one call of BootInfo::calculate: arguments and result
    ghcb,       \* one termination of the SEV shim: registers and MSR write
    subnet,     \* one Subnet::new(addr, p).contains(addr): values and result
    kc,         \* a KVM Keep behind its RwLock, and the Threads that share it
    ball,       \* one Thread::balloon on full-width arguments, and its end
    kl,         \* the daemon's KeepLoader behind its Mutex, and its threads
    cp          \* one CpuidPage, the calls made on it and their results

dvars == <<dargs, dhret, dret>>
svars == <<spc, how, sexit, sblock, srun, epc, ssa, strap, slast, sentry,
           scmd, sraced>>
kvars == <<cpus, regions, memory, kth, kblock, krun, kraced>>
wvars == <<wstr, wpc, wreq, wrep, wout>>
yvars == <<kc, ball, kl, cp>>
xvars == <<kb, snp, boot, ghcb, subnet, yvars>>
zvars == <<dvars, svars, kvars, wvars, kb, snp, boot, ghcb, subnet>>
notkc == <<zvars, ball, kl, cp>>
notball == <<zvars, kc, kl, cp>>
notkl == <<zvars, kc, ball, cp>>
notcp == <<zvars, kc, ball, kl>>
vars  == <<dvars, svars, kvars, wvars, xvars>>

----------------------------------------------------------------------------
\* Machine words

UsizeLimit == 2^30          \* stands for 2^64
U32Limit   == 2^20          \* stands for 2^32
I32Limit   == 2^19          \* stands for 2^31

\* (-e) as usize
NegErrno(e) == UsizeLimit - e

\* Enarx syscall numbers and the bound below which a number is a Linux one
SYS_ENARX_GETATT         == 59905
SYS_ENARX_CPUID          == 59906
SYS_ENARX_ERESUME        == 59907
SYS_ENARX_MEM_INFO       == 59908
SYS_ENARX_BALLOON_MEMORY == 59909
ENARX_BASE               == 59904

\* errno values
EBADF  == 9
ENOMEM == 12
EINVAL == 22
ENOSYS == 38

\* Linux syscall numbers the payloads of the model issue
SYS_read   == 0
SYS_write  == 1
SYS_mmap   == 9
SYS_mremap == 25
SYS_dup    == 32
SYS_getpid == 39
SYS_exit   == 60

FAKE_PID == 1000

\* sallyport::Result
Ok(r0, r1) == [ok |-> TRUE,  ret |-> <<r0, r1>>, err |-> 0]
Err(e)     == [ok |-> FALSE, ret |-> <<0, 0>>,   err |-> e]
NoCall     == [ok |-> FALSE, ret |-> <<0, 0>>,   err |-> 0]

----------------------------------------------------------------------------
\* The shim syscall dispatcher: SyscallHandler::syscall

\* The argument positions (1 = a .. 6 = f) an arm converts with try_into()
TryIntoArgs(nr) ==
    CASE nr \in {9}                 -> {3, 4, 5}    \* mmap
      [] nr \in {28, 10}            -> {3}          \* madvise, mprotect
      [] nr \in {158, 60, 231}      -> {1}          \* arch_prctl, exit, exit_group
      [] nr \in {13, 14}            -> {1}          \* rt_sigaction, rt_sigprocmask
      [] nr \in {318}               -> {3}          \* getrandom
      [] nr \in {228}               -> {1}          \* clock_gettime
      [] nr \in {3, 0, 1, 16, 5}    -> {1}          \* close, read, write, ioctl, fstat
      [] nr \in {19, 20}            -> {1, 3}       \* readv, writev
      [] nr \in {72}                -> {1, 2, 3}    \* fcntl
      [] nr \in {7}                 -> {3}          \* poll
      [] nr \in {291}               -> {1}          \* epoll_create1
      [] nr \in {233}               -> {1, 2, 3}    \* epoll_ctl
      [] nr \in {232, 281}          -> {1, 3, 4}    \* epoll_wait, epoll_pwait
      [] nr \in {41}                -> {1, 2, 3}    \* socket
      [] nr \in {49, 51, 43, 42}    -> {1}          \* bind, getsockname, accept, connect
      [] nr \in {50}                -> {1, 2}       \* listen
      [] nr \in {288, 45, 44}       -> {1, 4}       \* accept4, recvfrom, sendto
      [] nr \in {54}                -> {1, 2, 3, 5} \* setsockopt
      [] OTHER                      -> {}

\* The numbers with an arm that calls a handler
TableNrs ==
    {12, 9, 11, 28, 10, 158, 60, 231, 218, 13, 14, 131, 39, 102, 104, 107,
     108, 318, 228, 63, 3, 0, 1, 19, 20, 16, 89, 5, 72, 7, 22, 291, 233, 232,
     281, 290, 32, 33, 292, 41, 49, 50, 51, 43, 288, 42, 45, 44, 54}
    \cup {SYS_ENARX_GETATT}

\* try_into() of a register into a C int
FitsInt(v) == v < I32Limit

\* Some converted argument does not fit: the `?` returns Err(EINVAL)
NarrowFails(args, nr) == \E i \in TryIntoArgs(nr) : ~FitsInt(args[i])

\* The argument positions an arm converts with `usize::from(x) as _`
\* (eventfd2, dup, dup2, dup3)
AsCastArgs(nr) ==
    CASE nr = 290 -> {1, 2}
      [] nr = 32  -> {1}
      [] nr = 33  -> {1, 2}
      [] nr = 292 -> {1, 2, 3}
      [] OTHER    -> {}

\* `as` of a usize to a C int or unsigned: the low 32 bits
CastInt(v) == v % U32Limit

\* The arguments the handler of an arm is invoked with, <<>> when none is
HandlerCall(args, nr) ==
    IF nr \in TableNrs /\ ~NarrowFails(args, nr)
    THEN [i \in 1 .. 6 |-> IF i \in AsCastArgs(nr) THEN CastInt(args[i])
                                                    ELSE args[i]]
    ELSE <<>>

\* lib.rs 241-245: the values unknown_syscall is called with, <<>> when it
\* is not called
UnknownSyscallSilent(args, nr) == <<>>
UnknownSyscall(args, nr) ==
    IF nr \in TableNrs THEN <<>> ELSE args \o <<nr>>

\* lib.rs 248-253: a Linux syscall returns the caller's rdx in ret[1]
PreserveRdxNever(c, nr, ret) == ret
PreserveRdx(c, nr, ret) ==
    IF nr < ENARX_BASE
    THEN IF ret.ok THEN Ok(ret.ret[1], c) ELSE ret
    ELSE ret

\* lib.rs 84-255: the Result of syscall(a, b, c, d, e, f, nr) when the handler
\* of the arm (if one is reached) returns hret.  args = <<a, b, c, d, e, f>>.
Syscall(args, nr, hret) ==
    IF nr \in TableNrs
    THEN IF NarrowFails(args, nr)
         THEN Err(EINVAL)
         ELSE PreserveRdx(args[3], nr, hret)
    ELSE PreserveRdx(args[3], nr, Err(ENOSYS))

\* Handlers that answer inside the shim (getpid, getuid, getgid, geteuid,
\* getegid): a fixed fake identity
LocalNrs == {39, 102, 104, 107, 108}

\* Inputs of the dispatcher calls that are explored
DispatchRegs == {0, 3, I32Limit, U32Limit + 3}
DispatchNrs  == {SYS_read, SYS_write, SYS_mmap, SYS_mremap, SYS_dup,
                 SYS_getpid, ENARX_BASE - 1, ENARX_BASE, SYS_ENARX_GETATT,
                 SYS_ENARX_CPUID}
HandlerRets  == {Ok(0, 0), Ok(5, 7), Err(EBADF)}

NotCalled == [called |-> FALSE, res |-> NoCall, hargs |-> <<>>, diag |-> <<>>]

DInit ==
    /\ dargs \in {<<a, 0, c, d, 0, 0, nr>> :
                    a \in DispatchRegs, c \in DispatchRegs,
                    d \in {0, I32Limit}, nr \in DispatchNrs}
    /\ dhret \in HandlerRets
    /\ dret = NotCalled

DIdle ==
    /\ dargs = <<0, 0, 0, 0, 0, 0, 0>>
    /\ dhret = NoCall
    /\ dret = [called |-> TRUE, res |-> NoCall, hargs |-> <<>>, diag |-> <<>>]

\* One call of the dispatcher
DispatchCall ==
    /\ ~dret.called
    /\ dret' = [called |-> TRUE,
                res |-> Syscall(SubSeq(dargs, 1, 6), dargs[7], dhret),
                hargs |-> HandlerCall(SubSeq(dargs, 1, 6), dargs[7]),
                diag |-> UnknownSyscall(SubSeq(dargs, 1, 6), dargs[7])]
    /\ UNCHANGED <<dargs, dhret>>
    /\ UNCHANGED <<svars, kvars, wvars, xvars>>

----------------------------------------------------------------------------
\* The sallyport Block message: a union of Request {num, arg[..]} and
\* Reply {ret[2], err}, as words.  Word 1 is req.num and rep.ret[0], word 2
\* is req.arg[0] and rep.ret[1], word 3 is req.arg[1] and rep.err.

Req(num, a0, a1, a2, a3) == <<num, a0, a1, a2, a3>>

\* block.msg.rep = res.into()
RepWrite(blk, res) ==
    IF res.ok
    THEN [blk EXCEPT ![1] = res.ret[1], ![2] = res.ret[2], ![3] = 0]
    ELSE [blk EXCEPT ![1] = 0, ![2] = 0, ![3] = res.err]

\* block.msg.rep.into()
RepRead(blk) == IF blk[3] = 0 THEN Ok(blk[1], blk[2]) ELSE Err(blk[3])

\* exec_keep, Command::SysCall(block): block.msg.rep = block.msg.req.syscall()
\* with r the result of the host's syscall: the Block after it and the
\* writes of the reply it made
ExecSysCallArmNoReply(blk, r) == [blk |-> blk, writes |-> 0]
ExecSysCallArm(blk, r) == [blk |-> RepWrite(blk, r), writes |-> 1]

----------------------------------------------------------------------------
\* SGX: the enclave (payload and shim)

\* The host's cpuid instruction: __cpuid_count(leaf, sub_leaf)
CpuidCount(leaf, sub) ==
    [eax |-> 100 + 10 * leaf + sub, ebx |-> 200 + 10 * leaf + sub,
     ecx |-> 300 + 10 * leaf + sub, edx |-> 400 + 10 * leaf + sub]

Gpr(rax, rbx, rcx, rdx, rdi, rip) ==
    [rax |-> rax, rbx |-> rbx, rcx |-> rcx, rdx |-> rdx, rdi |-> rdi,
     rsi |-> 0, r10 |-> 0, r8 |-> 0, r9 |-> 0, rip |-> rip]

NoGpr == Gpr(0, 0, 0, 0, 0, 0)

\* What the payload does when it runs: the registers at its next trap
PayloadNrs   == {SYS_write, SYS_mmap, SYS_mremap, SYS_getpid, SYS_exit,
                 SYS_ENARX_GETATT, SYS_ENARX_CPUID}
PayloadRdx   == {3, I32Limit}
PayloadRips  == {4096, 8192}
CpuidLeaves  == {0, 1, U32Limit + 1}
CpuidSubs    == {0, 1}

SyscallTraps == {Gpr(nr, 5, 0, c, 2, ip) :
                   nr \in PayloadNrs, c \in PayloadRdx, ip \in PayloadRips}
CpuidTraps   == {Gpr(leaf, 5, sub, 3, 2, 4096) :
                   leaf \in CpuidLeaves, sub \in CpuidSubs}
OtherTraps   == {Gpr(0, 5, 0, 3, 2, 4096)}

\* What the host's kernel answers to a proxied syscall, and the attestation
HostRets   == {Ok(3, 9), Ok(0, 0), Err(EBADF)}
GetAttRets == {Ok(64, 0), Err(EINVAL)}

InvalidOpcode == "InvalidOpcode"
OtherVectors  == {"GeneralProtection", "PageFault"}

ExitOk       == [kind |-> "ok",   trap |-> "none"]
ExitAex(v)   == [kind |-> "aex",  trap |-> v]
ExitNone     == [kind |-> "none", trap |-> "none"]

\* handler/mod.rs 44-45: the opcodes the shim services, and ud2
OP_SYSCALL == <<15, 5>>
OP_CPUID   == <<15, 162>>
OP_UD2     == <<15, 11>>
Opcodes    == {OP_SYSCALL, OP_CPUID, OP_UD2}

\* handler/mod.rs 97-112, Handler::handle: what the shim does for the
\* exception vector of the saved frame and the two bytes at its rip
Handle(vector, op) ==
    IF vector = InvalidOpcode
    THEN CASE op = OP_SYSCALL -> "handle_syscall"
           [] op = OP_CPUID   -> "handle_cpuid"
           [] OTHER           -> "exit"
    ELSE "attacked"

\* handler/mod.rs 83-94, Handler::finish: the frame of an exception taken
\* inside the shim is stepped over a syscall or cpuid instruction; anything
\* else ends in ud2
Finish(vector, op) ==
    IF vector = InvalidOpcode /\ op \in {OP_SYSCALL, OP_CPUID}
    THEN "skip"
    ELSE "ud2"

\* handler/mod.rs 115-123: the arguments handle_syscall passes to syscall()
SyscallArgs(g) == <<g.rdi, g.rsi, g.rdx, g.r10, g.r8, g.r9>>

\* handler/mod.rs 125-133: handle_syscall once syscall() has returned ret
HandleSyscallReturnBothRegs(g, ret) ==
    LET g1 == [g EXCEPT !.rip = (g.rip + 2) % UsizeLimit]
    IN  IF ret.ok
        THEN [g1 EXCEPT !.rax = ret.ret[1], !.rdx = ret.ret[2]]
        ELSE [g1 EXCEPT !.rax = NegErrno(ret.err), !.rdx = 0]

HandleSyscallReturn(g, ret) ==
    LET g1 == [g EXCEPT !.rip = (g.rip + 2) % UsizeLimit]
    IN  IF ret.ok
        THEN [g1 EXCEPT !.rax = ret.ret[1], !.rdx = ret.ret[2]]
        ELSE [g1 EXCEPT !.rax = NegErrno(ret.err)]

\* handler/mod.rs 155-170: handle_cpuid once the host has answered
HandleCpuidReturnNoAdvance(g, blk) ==
    [g EXCEPT !.rax = blk[2], !.rbx = blk[3], !.rcx = blk[4], !.rdx = blk[5]]

HandleCpuidReturn(g, blk) ==
    [g EXCEPT !.rax = blk[2], !.rbx = blk[3], !.rcx = blk[4], !.rdx = blk[5],
              !.rip = (g.rip + 2) % UsizeLimit]

\* The enclave leaves through an exit the host sees as x
EnclaveExit(x) ==
    /\ sexit' = x
    /\ srun' = FALSE
    /\ spc' = "exit"
    /\ UNCHANGED <<how, slast, sentry, scmd, sraced>>

\* The shim has finished an exception: it asks the host to resume the payload
StageResume == sblock' = Req(SYS_ENARX_ERESUME, 0, 0, 0, 0)

\* The payload runs (from the start or after ERESUME) up to its next
\* exception: a syscall or cpuid instruction, another invalid opcode, or a
\* fault with another vector.
PayloadTrapSyscall ==
    /\ spc = "encl" /\ srun /\ epc \in {"start", "resumed"}
    /\ \E g \in SyscallTraps : ssa' = g /\ strap' = g
    /\ epc' = "ud_syscall"
    /\ UNCHANGED sblock
    /\ EnclaveExit(ExitAex(InvalidOpcode))
    /\ UNCHANGED <<dvars, kvars, wvars, xvars>>

PayloadTrapCpuid ==
    /\ spc = "encl" /\ srun /\ epc \in {"start", "resumed"}
    /\ \E g \in CpuidTraps : ssa' = g /\ strap' = g
    /\ epc' = "ud_cpuid"
    /\ UNCHANGED sblock
    /\ EnclaveExit(ExitAex(InvalidOpcode))
    /\ UNCHANGED <<dvars, kvars, wvars, xvars>>

PayloadTrapOtherOpcode ==
    /\ spc = "encl" /\ srun /\ epc \in {"start", "resumed"}
    /\ \E g \in OtherTraps : ssa' = g /\ strap' = g
    /\ epc' = "ud_other"
    /\ UNCHANGED sblock
    /\ EnclaveExit(ExitAex(InvalidOpcode))
    /\ UNCHANGED <<dvars, kvars, wvars, xvars>>

PayloadFault ==
    /\ spc = "encl" /\ srun /\ epc \in {"start", "resumed"}
    /\ \E g \in OtherTraps : ssa' = g /\ strap' = g
    /\ epc' = "fault"
    /\ UNCHANGED sblock
    /\ \E v \in OtherVectors : EnclaveExit(ExitAex(v))
    /\ UNCHANGED <<dvars, kvars, wvars, xvars>>

\* Handler::handle -> handle_syscall, for a syscall the shim answers without
\* the host: a failed argument conversion, an unknown number, a fake identity
ShimSyscallLocal ==
    /\ spc = "encl" /\ srun /\ epc = "ud_syscall"
    /\ Handle(sexit.trap, OP_SYSCALL) = "handle_syscall"
    /\ LET nr == ssa.rax
           args == SyscallArgs(ssa)
       IN  /\ \/ nr \notin TableNrs
              \/ NarrowFails(args, nr)
              \/ nr \in LocalNrs
           /\ ssa' = HandleSyscallReturn(ssa, Syscall(args, nr, Ok(FAKE_PID, 0)))
    /\ StageResume
    /\ epc' = "sys_done"
    /\ UNCHANGED strap
    /\ EnclaveExit(ExitOk)
    /\ UNCHANGED <<dvars, kvars, wvars, xvars>>

\* Handler::handle -> handle_syscall -> a handler that proxies: the request
\* is staged in the Block and the shim yields to the host
ShimSyscallProxy ==
    /\ spc = "encl" /\ srun /\ epc = "ud_syscall"
    /\ Handle(sexit.trap, OP_SYSCALL) = "handle_syscall"
    /\ LET nr == ssa.rax
           args == SyscallArgs(ssa)
       IN  /\ nr \in TableNrs /\ ~NarrowFails(args, nr) /\ nr \notin LocalNrs
           /\ sblock' = Req(nr, args[1], args[2], args[3], args[4])
    /\ epc' = "proxy"
    /\ UNCHANGED <<ssa, strap>>
    /\ EnclaveExit(ExitOk)
    /\ UNCHANGED <<dvars, kvars, wvars, xvars>>

\* The shim is entered again after the host answered the proxied request:
\* the handler returns the reply and handle_syscall completes
ShimSyscallReply ==
    /\ spc = "encl" /\ srun /\ epc = "proxy"
    /\ ssa' = HandleSyscallReturn(ssa,
                 Syscall(SyscallArgs(strap), strap.rax, RepRead(sblock)))
    /\ StageResume
    /\ epc' = "sys_done"
    /\ UNCHANGED strap
    /\ EnclaveExit(ExitOk)
    /\ UNCHANGED <<dvars, kvars, wvars, xvars>>

\* Handler::handle -> handle_cpuid, up to the cpuid instruction
ShimCpuidRequest ==
    /\ spc = "encl" /\ srun /\ epc = "ud_cpuid"
    /\ Handle(sexit.trap, OP_CPUID) = "handle_cpuid"
    /\ sblock' = Req(SYS_ENARX_CPUID, ssa.rax, ssa.rcx, 0, 0)
    /\ epc' = "cpuid"
    /\ UNCHANGED <<ssa, strap>>
    /\ EnclaveExit(ExitOk)
    /\ UNCHANGED <<dvars, kvars, wvars, xvars>>

\* handle_cpuid after the cpuid instruction
ShimCpuidReply ==
    /\ spc = "encl" /\ srun /\ epc = "cpuid"
    /\ ssa' = HandleCpuidReturn(ssa, sblock)
    /\ StageResume
    /\ epc' = "cpuid_done"
    /\ UNCHANGED strap
    /\ EnclaveExit(ExitOk)
    /\ UNCHANGED <<dvars, kvars, wvars, xvars>>

\* Handler::handle for an invalid opcode that is neither syscall nor cpuid:
\* h.exit(1)
ShimUnsupportedOpcode ==
    /\ spc = "encl" /\ srun /\ epc = "ud_other"
    /\ Handle(sexit.trap, OP_UD2) = "exit"
    /\ sblock' = Req(SYS_exit, 1, 0, 0, 0)
    /\ epc' = "exit"
    /\ UNCHANGED <<ssa, strap>>
    /\ EnclaveExit(ExitOk)
    /\ UNCHANGED <<dvars, kvars, wvars, xvars>>

\* Handler::handle for an exception with another vector: h.attacked(), which
\* ends the Keep with ud2
ShimAttacked ==
    /\ spc = "encl" /\ srun /\ epc = "fault"
    /\ \E op \in Opcodes : Handle(sexit.trap, op) = "attacked"
    /\ epc' = "dead"
    /\ UNCHANGED <<sblock, ssa, strap>>
    /\ EnclaveExit(ExitAex(InvalidOpcode))
    /\ UNCHANGED <<dvars, kvars, wvars, xvars>>

\* The enclave is entered again after the shim's ud2: the frame holds an
\* InvalidOpcode at a ud2 instruction, and finish ends in ud2 once more
ShimFinish ==
    /\ spc = "encl" /\ srun /\ epc = "dead"
    /\ Finish(sexit.trap, OP_UD2) = "ud2"
    /\ UNCHANGED <<epc, sblock, ssa, strap>>
    /\ EnclaveExit(ExitAex(InvalidOpcode))
    /\ UNCHANGED <<dvars, kvars, wvars, xvars>>

\* ERESUME: the payload continues from its saved state
PayloadResume ==
    /\ spc = "encl" /\ srun /\ epc \in {"sys_done", "cpuid_done"} /\ how = "Resume"
    /\ epc' = "resumed"
    /\ UNCHANGED <<spc, how, sexit, sblock, srun, ssa, strap, slast, sentry,
                   scmd, sraced>>
    /\ UNCHANGED <<dvars, kvars, wvars, xvars>>

----------------------------------------------------------------------------
\* SGX shim: Handler::write_str, the proxied write of the debug output

MaxStrLen   == 4        \* strings of up to this many bytes are written
BlockBufLen == 3        \* bytes the Block's buffer holds (scaled)

STDERR_FILENO == 2

Strings == UNION {[1 .. n -> {1, 2}] : n \in 0 .. MaxStrLen}

\* What the host answers to the proxied write
WriteRets == {Ok(k, 0) : k \in 0 .. MaxStrLen + 1} \cup {Err(EBADF)}

NoWrite == [num |-> 0, fd |-> 0, buf |-> <<>>, len |-> 0]

\* handler/mod.rs 65-69: the match on the result of the proxied write of n
\* bytes
WriteStrMatchTrusting(n, res) == IF res.ok THEN "Ok" ELSE "Err"
WriteStrMatch(n, res) ==
    CASE res.ok /\ res.ret[1] > n -> "attacked"
      [] res.ok /\ res.ret[1] = n -> "Ok"
      [] OTHER                    -> "Err"

\* handler/mod.rs 55-63: write_str up to the proxy of the write
WriteStrCall ==
    /\ wpc = "call"
    /\ IF Len(wstr) = 0
       THEN /\ wpc' = "done" /\ wout' = "Ok"
            /\ UNCHANGED wreq
       ELSE IF Len(wstr) > BlockBufLen       \* copy_from_slice fails
       THEN /\ wpc' = "done" /\ wout' = "Err"
            /\ UNCHANGED wreq
       ELSE /\ wpc' = "proxy"
            /\ wreq' = [num |-> SYS_write, fd |-> STDERR_FILENO,
                        buf |-> wstr, len |-> Len(wstr)]
            /\ UNCHANGED wout
    /\ UNCHANGED <<wstr, wrep>>
    /\ UNCHANGED <<dvars, svars, kvars, xvars>>

\* handler/mod.rs 63-69: the host has answered
WriteStrReply ==
    /\ wpc = "proxy"
    /\ \E r \in WriteRets :
         /\ wrep' = r
         /\ wout' = WriteStrMatch(Len(wstr), r)
    /\ wpc' = "done"
    /\ UNCHANGED <<wstr, wreq>>
    /\ UNCHANGED <<dvars, svars, kvars, xvars>>

WInit ==
    /\ wstr \in Strings
    /\ wpc = "call"
    /\ wreq = NoWrite
    /\ wrep = NoCall
    /\ wout = "none"

\* No call of write_str
WIdle ==
    /\ wstr = <<>>
    /\ wpc = "off"
    /\ wreq = NoWrite
    /\ wrep = NoCall
    /\ wout = "none"

WNext ==
    \/ WriteStrCall
    \/ WriteStrReply

----------------------------------------------------------------------------
\* SGX: the host, Thread::enter (backend/sgx/mod.rs) and exec_keep (main.rs)

\* The Entry the loop of Thread::enter goes round with, by what it met
EntryAfterCpuidResume(what) ==
    CASE what = "aex_ud"  -> "Enter"
      [] what = "cpuid"   -> "Resume"
      [] what = "getatt"  -> "Enter"
      [] what = "eresume" -> "Resume"
EntryAfter(what) ==
    CASE what = "aex_ud"  -> "Enter"
      [] what = "cpuid"   -> "Enter"
      [] what = "getatt"  -> "Enter"
      [] what = "eresume" -> "Resume"

\* The request numbers Thread::enter services or resumes on by itself
SgxInternalNrsNoResume == {SYS_ENARX_CPUID, SYS_ENARX_GETATT}
SgxInternalNrs == {SYS_ENARX_CPUID, SYS_ENARX_GETATT, SYS_ENARX_ERESUME}

\* The host reads or writes the Block
SgxTouch == sraced' = (sraced \/ srun)

\* The loop goes round: `how = match ... { ... => entry }`
SgxLoop(what) ==
    /\ how' = EntryAfter(what)
    /\ slast' = what
    /\ spc' = "loop"

\* exec_keep calls thread.enter(): registers and how are initialised
SgxEnter ==
    /\ spc = "call"
    /\ how' = "Enter"
    /\ slast' = "first"
    /\ spc' = "loop"
    /\ UNCHANGED <<sexit, sblock, srun, epc, ssa, strap, sentry, scmd, sraced>>
    /\ UNCHANGED <<dvars, kvars, wvars, xvars>>

\* self.thread.enter(how, &mut registers): the enclave starts to execute
SgxEnclaveEnter ==
    /\ spc = "loop"
    /\ spc' = "encl"
    /\ srun' = TRUE
    /\ sentry' = [how |-> how, after |-> slast]
    /\ UNCHANGED <<how, sexit, sblock, epc, ssa, strap, slast, scmd, sraced>>
    /\ UNCHANGED <<dvars, kvars, wvars, xvars>>

\* Err(ei) if ei.trap == Exception::InvalidOpcode => Entry::Enter
SgxAexInvalidOpcode ==
    /\ spc = "exit"
    /\ sexit = ExitAex(InvalidOpcode)
    /\ SgxLoop("aex_ud")
    /\ UNCHANGED <<sexit, sblock, srun, epc, ssa, strap, sentry, scmd, sraced>>
    /\ UNCHANGED <<dvars, kvars, wvars, xvars>>

\* The outcome of an AEX with another trap: panic!("Unexpected AEX")
AexOtherContinues == "loop"
AexOtherOutcome == "panic"

\* e => panic!("Unexpected AEX: {:?}", e)
SgxAexOther ==
    /\ spc = "exit"
    /\ sexit.kind = "aex" /\ sexit.trap # InvalidOpcode
    /\ spc' = AexOtherOutcome
    /\ how' = "Enter"
    /\ slast' = "aex_other"
    /\ UNCHANGED <<sexit, sblock, srun, epc, ssa, strap, sentry, scmd, sraced>>
    /\ UNCHANGED <<dvars, kvars, wvars, xvars>>

\* Ok(_), SYS_ENARX_CPUID: arg[0] and arg[1] are narrowed to u32 with
\* try_into().unwrap(), cpuid is executed and its result written to arg[0..4]
SgxOkCpuidSwapped(blk) ==
    LET r == CpuidCount(blk[3], blk[2])
    IN  [blk EXCEPT ![2] = r.eax, ![3] = r.ebx, ![4] = r.ecx, ![5] = r.edx]

SgxOkCpuidWrite(blk) ==
    LET r == CpuidCount(blk[2], blk[3])
    IN  [blk EXCEPT ![2] = r.eax, ![3] = r.ebx, ![4] = r.ecx, ![5] = r.edx]

SgxOkCpuid ==
    /\ spc = "exit"
    /\ sexit = ExitOk /\ sblock[1] = SYS_ENARX_CPUID
    /\ SgxTouch
    /\ IF sblock[2] < U32Limit /\ sblock[3] < U32Limit
       THEN /\ sblock' = SgxOkCpuidWrite(sblock)
            /\ SgxLoop("cpuid")
       ELSE /\ spc' = "panic"
            /\ UNCHANGED <<sblock, how, slast>>
    /\ UNCHANGED <<sexit, srun, epc, ssa, strap, sentry, scmd>>
    /\ UNCHANGED <<dvars, kvars, wvars, xvars>>

\* Ok(_), SYS_ENARX_GETATT: get_attestation(...)? and the reply
SgxOkGetAtt ==
    /\ spc = "exit"
    /\ sexit = ExitOk /\ sblock[1] = SYS_ENARX_GETATT
    /\ SgxTouch
    /\ \E r \in GetAttRets :
         IF r.ok
         THEN /\ sblock' = RepWrite(sblock, Ok(r.ret[1], 0))
              /\ SgxLoop("getatt")
         ELSE /\ spc' = "err"
              /\ UNCHANGED <<sblock, how, slast>>
    /\ UNCHANGED <<sexit, srun, epc, ssa, strap, sentry, scmd>>
    /\ UNCHANGED <<dvars, kvars, wvars, xvars>>

\* Ok(_), SYS_ENARX_ERESUME => Entry::Resume
SgxOkEresume ==
    /\ spc = "exit"
    /\ sexit = ExitOk /\ sblock[1] = SYS_ENARX_ERESUME
    /\ SgxTouch
    /\ SgxLoop("eresume")
    /\ UNCHANGED <<sexit, sblock, srun, epc, ssa, strap, sentry, scmd>>
    /\ UNCHANGED <<dvars, kvars, wvars, xvars>>

\* Ok(_), any other number => return Ok(Command::SysCall(&mut self.block))
SgxOkSysCall ==
    /\ spc = "exit"
    /\ sexit = ExitOk /\ sblock[1] \notin SgxInternalNrs
    /\ SgxTouch
    /\ spc' = "cmd"
    /\ slast' = "syscall"
    /\ scmd' = [cmd |-> "SysCall", num |-> sblock[1], writes |-> 0]
    /\ UNCHANGED <<how, sexit, sblock, srun, epc, ssa, strap, sentry>>
    /\ UNCHANGED <<dvars, kvars, wvars, xvars>>

\* exec_keep, Command::SysCall(block): block.msg.rep = block.msg.req.syscall()
\* (an exit or exit_group request ends the host process instead)
ExitNrs == {60, 231}

SgxExecSysCall ==
    /\ spc = "cmd"
    /\ SgxTouch
    /\ IF sblock[1] \in ExitNrs
       THEN /\ spc' = "exited"
            /\ UNCHANGED <<sblock, scmd>>
       ELSE /\ \E r \in HostRets :
                 /\ sblock' = ExecSysCallArm(sblock, r).blk
                 /\ scmd' = [scmd EXCEPT !.writes =
                                 @ + ExecSysCallArm(sblock, r).writes]
            /\ spc' = "call"
    /\ UNCHANGED <<how, sexit, srun, epc, ssa, strap, slast, sentry>>
    /\ UNCHANGED <<dvars, kvars, wvars, xvars>>

SInit ==
    /\ spc = "call"
    /\ how = "Enter"
    /\ sexit = ExitNone
    /\ sblock = Req(0, 0, 0, 0, 0)
    /\ srun = FALSE
    /\ epc = "start"
    /\ ssa = NoGpr
    /\ strap = NoGpr
    /\ slast = "first"
    /\ sentry = [how |-> "none", after |-> "none"]
    /\ scmd = [cmd |-> "none", num |-> 0, writes |-> 0]
    /\ sraced = FALSE

\* No SGX Keep in the system
SIdle ==
    /\ spc = "off"
    /\ how = "Enter"
    /\ sexit = ExitNone
    /\ sblock = Req(0, 0, 0, 0, 0)
    /\ srun = FALSE
    /\ epc = "start"
    /\ ssa = NoGpr
    /\ strap = NoGpr
    /\ slast = "first"
    /\ sentry = [how |-> "none", after |-> "none"]
    /\ scmd = [cmd |-> "none", num |-> 0, writes |-> 0]
    /\ sraced = FALSE

SNext ==
    \/ PayloadTrapSyscall
    \/ PayloadTrapCpuid
    \/ PayloadTrapOtherOpcode
    \/ PayloadFault
    \/ ShimSyscallLocal
    \/ ShimSyscallProxy
    \/ ShimSyscallReply
    \/ ShimCpuidRequest
    \/ ShimCpuidReply
    \/ ShimUnsupportedOpcode
    \/ PayloadResume
    \/ SgxEnter
    \/ SgxEnclaveEnter
    \/ SgxAexInvalidOpcode
    \/ SgxAexOther
    \/ SgxOkCpuid
    \/ SgxOkGetAtt
    \/ SgxOkEresume
    \/ SgxOkSysCall
    \/ SgxExecSysCall

\* A host that, unlike Thread::enter, enters the shim for an AEX whose trap
\* is not InvalidOpcode
EnterOnFault ==
    /\ spc = "exit"
    /\ sexit.kind = "aex" /\ sexit.trap # InvalidOpcode
    /\ spc' = "encl"
    /\ srun' = TRUE
    /\ how' = "Enter"
    /\ slast' = "aex_other"
    /\ sentry' = [how |-> "Enter", after |-> "aex_other"]
    /\ UNCHANGED <<sexit, sblock, epc, ssa, strap, scmd, sraced>>
    /\ UNCHANGED <<dvars, kvars, wvars, xvars>>

\* The SGX Keep when the shim may be entered for any exception
SNextAnyEntry ==
    \/ SNext
    \/ EnterOnFault
    \/ ShimAttacked
    \/ ShimFinish

----------------------------------------------------------------------------
\* KVM: the Keep (backend/kvm/mod.rs), its Threads (backend/kvm/thread.rs)

NumCpus        == 1     \* Blocks of the sallyport segment: one Cpu each
NumHostThreads == 2     \* host threads that spawn, enter and drop Threads
MaxRegions     == 2     \* regions a Keep of the model holds at most

Cpus        == 1 .. NumCpus
HostThreads == 1 .. NumHostThreads
NoCpu       == 0

PageShift == 12         \* sysconf(_SC_PAGE_SIZE) is 1 << 12

NoReq == <<0, 0, 0, 0>>

\* What a guest stages in its Block before it triggers the syscall port
GuestReqs == {<<SYS_write, 12, 1, 4096>>,
              <<SYS_ENARX_MEM_INFO, 0, 0, 0>>,
              <<SYS_ENARX_BALLOON_MEMORY, 12, 1, 4096>>}

\* What the Block of a slot holds when the Keep is built (the bytes of the
\* shim's sallyport segment)
BuiltBlocks == {NoReq, <<SYS_ENARX_BALLOON_MEMORY, 12, 1, 4096>>,
                <<SYS_ENARX_MEM_INFO, 0, 0, 0>>}

\* What the host's kernel answers to a request exec_keep executes
KvmHostRets == {Ok(SYS_ENARX_BALLOON_MEMORY, 12), Err(EBADF)}

\* sallyport::KVM_SYSCALL_TRIGGER_PORT, the port of the shim's
\* SYSCALL_TRIGGER_PORT
KVM_SYSCALL_TRIGGER_PORT == 255

\* VcpuExit reasons: IoOut(port, data) and the others
IoOut(port, data) == [kind |-> "IoOut", port |-> port, data |-> data]
VcpuExit(kind)    == [kind |-> kind, port |-> 0, data |-> 0]
NoExit            == VcpuExit("none")

\* The data bytes a guest writes to the trigger port
TriggerData == {0, 1}

\* VcpuExit reasons other than IoOut on the trigger port
OtherVcpuExits == {VcpuExit("Hlt"), IoOut(128, 0)}

\* thread.rs 93: the pattern VcpuExit::IoOut(KVM_SYSCALL_TRIGGER_PORT, ..)
IsProxyExitAnyPort(x) == x.kind = "IoOut"
IsProxyExit(x) == x.kind = "IoOut" /\ x.port = KVM_SYSCALL_TRIGGER_PORT

\* Vec::pop and Vec::push on Keep.cpus, under the write lock
PoolTakeKeeps(pool) == pool
PoolTake(pool) == SubSeq(pool, 1, Len(pool) - 1)

PoolGiveLoses(pool, c) == pool
PoolGive(pool, c) == Append(pool, c)

\* The host-virtual address mmap gives the pages of the region in `slot`
Vaddr(slot) == 65536 * (slot + 1)

RegionAtZero(slot, gpa, size) ==
    [slot |-> slot, guest_phys_addr |-> 0, memory_size |-> size,
     userspace_addr |-> Vaddr(slot)]
Region(slot, gpa, size) ==
    [slot |-> slot, guest_phys_addr |-> gpa, memory_size |-> size,
     userspace_addr |-> Vaddr(slot)]

\* Keep::map, line 68: slot: self.memory.len() as u32
NextSlotZero(mem) == 0
NextSlot(mem) == Len(mem)

\* Keep::map, lines 76-77: self.regions.push(region); self.memory.push(pages)
KeepPushOverLast(list, entry) == [list EXCEPT ![Len(list)] = entry]
KeepPush(list, entry) == Append(list, entry)

LiveThreads == {t \in HostThreads : kth[t].cpu # NoCpu}

KThread(pc, cpu) ==
    [pc |-> pc, cpu |-> cpu, req |-> NoReq, exit |-> NoExit, err |-> NoExit,
     cmd |-> "none", writes |-> 0, none |-> -1, maps |-> 0]

\* The host reads or writes the Block of Cpu c
KvmTouch(c) == kraced' = IF krun[c] THEN kraced \cup {c} ELSE kraced

\* Keep::spawn: self.write().unwrap().cpus.pop()
KvmSpawn(t) ==
    /\ kth[t].pc = "idle"
    /\ IF cpus = <<>>
       THEN /\ kth' = [kth EXCEPT ![t].none = Cardinality(LiveThreads)]
            /\ UNCHANGED cpus
       ELSE /\ kth' = [kth EXCEPT ![t] = KThread("live", cpus[Len(cpus)])]
            /\ cpus' = PoolTake(cpus)
    /\ UNCHANGED <<regions, memory, kblock, krun, kraced>>
    /\ UNCHANGED <<dvars, svars, wvars, xvars>>

\* Drop for Thread: cpus.push(self.cpu.take().unwrap()); exec_keep drops its
\* Thread when enter() has returned Err
KvmDrop(t) ==
    /\ kth[t].pc \in {"live", "err"}
    /\ cpus' = PoolGive(cpus, kth[t].cpu)
    /\ kth' = [kth EXCEPT ![t] = KThread("idle", NoCpu)]
    /\ UNCHANGED <<regions, memory, kblock, krun, kraced>>
    /\ UNCHANGED <<dvars, svars, wvars, xvars>>

\* Thread::enter up to cpu.fd.run(): req is a copy of block.msg.req made
\* before the vCPU runs; the host thread then blocks in KVM_RUN
KvmEnter(t) ==
    /\ kth[t].pc = "live"
    /\ KvmTouch(kth[t].cpu)
    /\ krun' = [krun EXCEPT ![kth[t].cpu] = TRUE]
    /\ kth' = [kth EXCEPT ![t].req = kblock[kth[t].cpu], ![t].pc = "run",
                          ![t].cmd = "none", ![t].writes = 0]
    /\ UNCHANGED <<cpus, regions, memory, kblock>>
    /\ UNCHANGED <<dvars, svars, wvars, xvars>>

\* cpu.fd.run()? fails: enter returns Err
KvmRunFails(t) ==
    /\ kth[t].pc = "run"
    /\ krun' = [krun EXCEPT ![kth[t].cpu] = FALSE]
    /\ kth' = [kth EXCEPT ![t].pc = "err", ![t].req = NoReq,
                          ![t].err = VcpuExit("RunError")]
    /\ UNCHANGED <<cpus, regions, memory, kblock, kraced>>
    /\ UNCHANGED <<dvars, svars, wvars, xvars>>

\* KVM_RUN returns to the host thread when the vCPU has stopped
RunningAtExitStill == TRUE
RunningAtExit == FALSE

\* The guest stages a request in its Block and writes to the trigger port
GuestRequest(t) ==
    /\ kth[t].pc = "run" /\ krun[kth[t].cpu]
    /\ \E g \in GuestReqs : kblock' = [kblock EXCEPT ![kth[t].cpu] = g]
    /\ krun' = [krun EXCEPT ![kth[t].cpu] = RunningAtExit]
    /\ \E d \in TriggerData :
         kth' = [kth EXCEPT ![t].pc = "exit",
                            ![t].exit = IoOut(KVM_SYSCALL_TRIGGER_PORT, d)]
    /\ UNCHANGED <<cpus, regions, memory, kraced>>
    /\ UNCHANGED <<dvars, svars, wvars, xvars>>

\* The vCPU exits for another reason
GuestOtherExit(t) ==
    /\ kth[t].pc = "run" /\ krun[kth[t].cpu]
    /\ krun' = [krun EXCEPT ![kth[t].cpu] = RunningAtExit]
    /\ \E x \in OtherVcpuExits :
         kth' = [kth EXCEPT ![t].pc = "exit", ![t].exit = x]
    /\ UNCHANGED <<cpus, regions, memory, kblock, kraced>>
    /\ UNCHANGED <<dvars, svars, wvars, xvars>>

\* Thread::balloon, lines 44-56: the validity check
BalloonValidAlways(req) == TRUE
BalloonValid(req) ==
    LET pow2 == req[2]
        addr == req[4]
        size == 2 ^ pow2
    IN  size = 2 ^ PageShift /\ addr % size = 0

\* enter has matched the exit: req and the exit reason are dead
KvmReturned(t, pc, cmd) ==
    kth' = [kth EXCEPT ![t].pc = pc, ![t].cmd = cmd, ![t].writes = 0,
                       ![t].req = NoReq, ![t].exit = NoExit]

\* Thread::balloon that has pushed the region before KVM refuses it
BalloonOutcomesPushFirst(req, n) ==
    LET out(res, m, g) == [res |-> res, maps |-> m, grows |-> g]
    IN  IF ~BalloonValid(req)
        THEN {out(Err(EINVAL), 0, FALSE)}
        ELSE IF req[3] = 0
        THEN {out(Err(EINVAL), 1, FALSE)}
        ELSE {out(Err(ENOMEM), 1, n < MaxRegions)}
             \cup IF n < MaxRegions
                  THEN {out(Ok(Vaddr(n), 0), 1, TRUE)}
                  ELSE {}

\* Thread::balloon, lines 43-75, on a Keep of n regions: the results it can
\* return, with the calls of Map::map it made (maps) and whether the region
\* was registered (grows)
BalloonOutcomes(req, n) ==
    LET npgs == req[3]
        out(res, m, g) == [res |-> res, maps |-> m, grows |-> g]
    IN  IF ~BalloonValid(req)
        THEN {out(Err(EINVAL), 0, FALSE)}
        ELSE IF npgs = 0
        THEN {out(Err(EINVAL), 1, FALSE)}           \* mmap of no bytes
        ELSE {out(Err(ENOMEM), 1, FALSE)}           \* mmap or KVM refuses
             \cup IF n < MaxRegions
                  THEN {out(Ok(Vaddr(n), 0), 1, TRUE)}
                  ELSE {}

\* Thread::enter, SYS_ENARX_BALLOON_MEMORY:
\* block.msg.rep = self.balloon(req).into(); Ok(Command::Continue)
KvmIoBalloon(t) ==
    /\ kth[t].pc = "exit" /\ IsProxyExit(kth[t].exit)
    /\ kth[t].req[1] = SYS_ENARX_BALLOON_MEMORY
    /\ LET c == kth[t].cpu
           req == kth[t].req
           slot == NextSlot(memory)
       IN  /\ KvmTouch(c)
           /\ \E o \in BalloonOutcomes(req, Len(regions)) :
                 /\ kblock' = [kblock EXCEPT ![c] = RepWrite(@, o.res)]
                 /\ IF o.grows
                    THEN /\ regions' = KeepPush(regions,
                                Region(slot, req[4], (2 ^ req[2]) * req[3]))
                         /\ memory' = KeepPush(memory, Vaddr(slot))
                    ELSE UNCHANGED <<regions, memory>>
                 /\ kth' = [kth EXCEPT ![t].pc = "cont", ![t].cmd = "Continue",
                                       ![t].writes = 0, ![t].req = NoReq,
                                       ![t].exit = NoExit, ![t].maps = o.maps]
    /\ UNCHANGED <<cpus, krun>>
    /\ UNCHANGED <<dvars, svars, wvars, xvars>>

\* Thread::enter, SYS_ENARX_MEM_INFO:
\* block.msg.rep = self.meminfo(block).into(); Ok(Command::Continue)
KvmIoMemInfo(t) ==
    /\ kth[t].pc = "exit" /\ IsProxyExit(kth[t].exit)
    /\ kth[t].req[1] = SYS_ENARX_MEM_INFO
    /\ KvmTouch(kth[t].cpu)
    /\ kblock' = [kblock EXCEPT ![kth[t].cpu] = RepWrite(@, Ok(0, 0))]
    /\ KvmReturned(t, "cont", "Continue")
    /\ UNCHANGED <<cpus, regions, memory, krun>>
    /\ UNCHANGED <<dvars, svars, wvars, xvars>>

\* Thread::enter, any other number: Ok(Command::SysCall(block))
KvmIoSysCall(t) ==
    /\ kth[t].pc = "exit" /\ IsProxyExit(kth[t].exit)
    /\ kth[t].req[1] \notin {SYS_ENARX_BALLOON_MEMORY, SYS_ENARX_MEM_INFO}
    /\ KvmReturned(t, "cmd", "SysCall")
    /\ UNCHANGED <<cpus, regions, memory, kblock, krun, kraced>>
    /\ UNCHANGED <<dvars, svars, wvars, xvars>>

\* Thread::enter, any other exit: Err(anyhow!(reason))
KvmOtherExit(t) ==
    /\ kth[t].pc = "exit" /\ ~IsProxyExit(kth[t].exit)
    /\ kth' = [kth EXCEPT ![t].pc = "err", ![t].cmd = "none", ![t].writes = 0,
                          ![t].req = NoReq, ![t].exit = NoExit,
                          ![t].err = kth[t].exit]
    /\ UNCHANGED <<cpus, regions, memory, kblock, krun, kraced>>
    /\ UNCHANGED <<dvars, svars, wvars, xvars>>

\* exec_keep, Command::SysCall(block), on the Block of the Thread's Cpu
KvmExecSysCall(t) ==
    /\ kth[t].pc = "cmd"
    /\ KvmTouch(kth[t].cpu)
    /\ \E r \in KvmHostRets :
         LET arm == ExecSysCallArm(kblock[kth[t].cpu], r)
         IN  /\ kblock' = [kblock EXCEPT ![kth[t].cpu] = arm.blk]
             /\ kth' = [kth EXCEPT ![t].pc = "live",
                                   ![t].writes = @ + arm.writes]
    /\ UNCHANGED <<cpus, regions, memory, krun>>
    /\ UNCHANGED <<dvars, svars, wvars, xvars>>

\* exec_keep, Command::Continue => ()
KvmExecContinue(t) ==
    /\ kth[t].pc = "cont"
    /\ kth' = [kth EXCEPT ![t].pc = "live", ![t].maps = 0]
    /\ UNCHANGED <<cpus, regions, memory, kblock, krun, kraced>>
    /\ UNCHANGED <<dvars, svars, wvars, xvars>>

KInit ==
    /\ cpus = [i \in 1 .. NumCpus |-> i]
    /\ regions = <<Region(0, 0, 2 ^ PageShift)>>
    /\ memory = <<Vaddr(0)>>
    /\ kth = [t \in HostThreads |-> KThread("idle", NoCpu)]
    /\ kblock \in [Cpus -> BuiltBlocks]
    /\ krun = [c \in Cpus |-> FALSE]
    /\ kraced = {}

\* No KVM Keep in the system
KIdle ==
    /\ cpus = <<>>
    /\ regions = <<>>
    /\ memory = <<>>
    /\ kth = [t \in HostThreads |-> KThread("off", NoCpu)]
    /\ kblock = [c \in Cpus |-> NoReq]
    /\ krun = [c \in Cpus |-> FALSE]
    /\ kraced = {}

\* The requests Thread::balloon is called with
BalloonReqs ==
    {<<SYS_ENARX_BALLOON_MEMORY, pow2, npgs, addr>> :
        pow2 \in {0, 11, 12, 13}, npgs \in {0, 1, 2},
        addr \in {0, 4096, 4097, 8192, 12288}}

\* A Keep whose first Thread has left the vCPU with a balloon request
KBalloonInit ==
    /\ cpus = [i \in 1 .. NumCpus - 1 |-> i]
    /\ regions = <<Region(0, 0, 2 ^ PageShift)>>
    /\ memory = <<Vaddr(0)>>
    /\ \E r \in BalloonReqs, d \in TriggerData :
         /\ kth = [t \in HostThreads |->
                     IF t = 1
                     THEN [KThread("exit", NumCpus) EXCEPT
                              !.req = r,
                              !.exit = IoOut(KVM_SYSCALL_TRIGGER_PORT, d)]
                     ELSE KThread("idle", NoCpu)]
         /\ kblock = [c \in Cpus |-> IF c = NumCpus THEN r ELSE NoReq]
    /\ krun = [c \in Cpus |-> FALSE]
    /\ kraced = {}

BalloonNext == \E t \in HostThreads : KvmIoBalloon(t)

KNext ==
    \E t \in HostThreads :
        \/ KvmSpawn(t)
        \/ KvmDrop(t)
        \/ KvmEnter(t)
        \/ KvmRunFails(t)
        \/ GuestRequest(t)
        \/ GuestOtherExit(t)
        \/ KvmIoBalloon(t)
        \/ KvmIoMemInfo(t)
        \/ KvmIoSysCall(t)
        \/ KvmOtherExit(t)
        \/ KvmExecSysCall(t)
        \/ KvmExecContinue(t)

----------------------------------------------------------------------------
\* The KVM Builder: Builder::map on the Keep it wraps (kvm/builder.rs)

\* A pointer-sized word of a mapping stands for 8 bytes; size_of::<Block>()
\* is one page, WordsPerBlock words (stands for 512)
WordsPerBlock == 2
\* The most Blocks a mapped segment has, and the most segments mapped
MaxSegBlocks == 2
MaxSegments == 2

\* The segment flags Builder::map tests: with is the set of the flags set
\* (with & sallyport::elf::pf::sgx::TCS != 0 is "TCS" \in with)
KbFlags == {{}, {"TCS"}}

\* The segments handed to Builder::map as its i-th pages: the base address
\* (page aligned) and the words, all zero or all the bytes of something else
Segments(i) ==
    {[addr |-> 65536 * i, words |-> [k \in 1 .. n * WordsPerBlock |-> w]] :
        n \in 1 .. MaxSegBlocks, w \in {0, 4096}}

\* The addresses of the Blocks of a segment
BlocksOf(pages) ==
    {pages.addr + 4096 * k : k \in 0 .. (Len(pages.words) \div WordsPerBlock) - 1}

\* builder.rs 38-41: blocks is a Vec<*mut Block> and is extended from
\* pages.align_to_mut().1.iter(); the only impl that applies is
\* Extend<&T> for Vec<T>, so the slice is a [*mut Block]: the words of the
\* pages are read as the pointers
CollectBlocks(pages, with) == IF "TCS" \in with THEN pages.words ELSE <<>>

\* super::Cpu { fd, block } with fd = create_vcpu(id)
Cpu(id, block) == [fd |-> id, block |-> block]

KbNew == [cpus |-> <<>>, memory |-> <<>>, regions |-> <<>>,
          flagged |-> {}, res |-> "none"]

\* Builder::map(pages, to, with): Keep::map, then one Cpu for each collected
\* block; create_vcpu or set_cpuid2 can fail after made of them, and the
\* caller drops a Builder whose map failed
BuilderMap ==
    /\ Len(kb.memory) < MaxSegments /\ kb.res \in {"none", "Ok"}
    /\ \E pages \in Segments(Len(kb.memory) + 1), with \in KbFlags,
          registered \in BOOLEAN :
         LET slot == NextSlot(kb.memory)
             to == 4096 * MaxSegBlocks * slot
             region == [slot |-> slot, guest_phys_addr |-> to,
                        memory_size |-> 4096 * (Len(pages.words) \div WordsPerBlock),
                        userspace_addr |-> pages.addr]
             blocks == CollectBlocks(pages, with)
         IN  IF ~registered
             THEN kb' = [kb EXCEPT !.res = "Err"]
             ELSE \E made \in 0 .. Len(blocks) :
                    kb' = [cpus |-> kb.cpus \o
                               [k \in 1 .. made |->
                                   Cpu(Len(kb.cpus) + k - 1, blocks[k])],
                           memory |-> KeepPush(kb.memory, pages),
                           regions |-> KeepPush(kb.regions, region),
                           flagged |-> kb.flagged \cup
                               (IF "TCS" \in with
                                THEN BlocksOf(pages) ELSE {}),
                           res |-> IF made = Len(blocks) THEN "Ok" ELSE "Err"]
    /\ UNCHANGED <<snp, boot, ghcb, subnet>>
    /\ UNCHANGED <<dvars, svars, kvars, wvars, yvars>>


----------------------------------------------------------------------------
\* shim-sev hostlib: BootInfo::calculate (a usize is a natural below
\* UsizeLimit; the 2 MiB and page boundaries keep their values)

MAX_SETUP_SIZE == 2097152

PageSize == 2 ^ PageShift       \* Page::size()

Some(v) == [some |-> TRUE, v |-> v]
None    == [some |-> FALSE, v |-> 0]

\* lower: value / boundary * boundary
LowerIdentity(value, boundary) == value
Lower(value, boundary) == (value \div boundary) * boundary

\* raise: value.checked_add(boundary).map(wrapping_sub(1)).map(lower)
Raise(value, boundary) ==
    IF value + boundary >= UsizeLimit
    THEN None
    ELSE Some(Lower((value + boundary + UsizeLimit - 1) % UsizeLimit, boundary))

\* lset::Line and lset::Span
Line(start, end) == [start |-> start, end |-> end]
Span(start, count) == [start |-> start, count |-> count]

\* above: raise(rel.end, align).map(|val| Span { start: val, count: size })
Above(rel, size, align) ==
    LET r == Raise(rel.end, align)
    IN  IF r.some THEN Some(Span(r.v, size)) ELSE None

\* Line::from(Span): end = start + count, an unchecked usize addition
SpanOverflows(span) == span.start + span.count >= UsizeLimit
SpanToLine(span) == Line(span.start, (span.start + span.count) % UsizeLimit)

BootOut(res, info, ovf) == [res |-> res, info |-> info, overflowed |-> ovf]
NoBootInfo == [setup |-> Line(0, 0), shim |-> Line(0, 0), code |-> Line(0, 0),
               mem_size |-> 0, nr_syscall_blocks |-> 0]

\* BootInfo::calculate(setup, shim, code) in a build with (checks) or without
\* debug assertions and overflow checks: Ok(BootInfo), Err(NoMemory) or a
\* panic, and whether an addition overflowed on the way
Calculate(setup, shim, code, checks) ==
    LET s == Above(setup, shim.count, MAX_SETUP_SIZE)
    IN  IF checks /\ ~(setup.end < MAX_SETUP_SIZE)
        THEN BootOut("panic", NoBootInfo, FALSE)
        ELSE IF ~s.some THEN BootOut("NoMemory", NoBootInfo, TRUE)
        ELSE IF checks /\ SpanOverflows(s.v)
        THEN BootOut("panic", NoBootInfo, TRUE)
        ELSE
        LET shimL == SpanToLine(s.v)
            c == Above(shimL, code.count, PageSize)
            o1 == SpanOverflows(s.v)
        IN  IF ~c.some THEN BootOut("NoMemory", NoBootInfo, TRUE)
            ELSE IF checks /\ SpanOverflows(c.v)
            THEN BootOut("panic", NoBootInfo, TRUE)
            ELSE
            LET codeL == SpanToLine(c.v)
                m == Raise(codeL.end, PageSize)
                o2 == o1 \/ SpanOverflows(c.v)
            IN  IF ~m.some THEN BootOut("NoMemory", NoBootInfo, TRUE)
                ELSE BootOut("Ok",
                             [setup |-> setup, shim |-> shimL, code |-> codeL,
                              mem_size |-> m.v, nr_syscall_blocks |-> 0],
                             o2)

BootCall(setup, shim, code, checks) ==
    [setup |-> setup, shim |-> shim, code |-> code, checks |-> checks,
     out |-> BootOut("none", NoBootInfo, FALSE)]

BootCalculate ==
    /\ boot.out.res = "none"
    /\ boot' = [boot EXCEPT
                   !.out = Calculate(boot.setup, boot.shim, boot.code,
                                     boot.checks)]
    /\ UNCHANGED <<kb, snp, ghcb, subnet>>
    /\ UNCHANGED <<dvars, svars, kvars, wvars, yvars>>

----------------------------------------------------------------------------
\* shim-sev debug.rs: the two functions that terminate the shim.  A register
\* is the set of the positions of its bits that are 1, so that shifts and
\* ors are exact on 64 bits

\* The bits of a natural below 2^31
ToBits(n) == {i \in 0 .. 30 : (n \div 2 ^ i) % 2 = 1}

Shl(r, n) == {b + n : b \in {x \in r : x + n < 64}}    \* shl r, n
Low32(r) == {b \in r : b < 32}            \* eax of rax, edx of rdx
Field(r, lo, hi) == {b - lo : b \in {x \in r : lo <= x /\ x <= hi}}

\* SEV_GHCB_MSR = 0xc001_0130, as its two 16-bit halves
SEV_GHCB_MSR == <<49153, 304>>

\* The asm block of lines 29-51 and 94-116 on rax and r14:
\* shl rax, 16; shl r14, 12; or rax, r14; or eax, 0x100; xor edx, edx;
\* mov ecx, SEV_GHCB_MSR; wrmsr; rep vmmcall
VmgExitTerminate(rax, r14) ==
    [ecx |-> SEV_GHCB_MSR,
     eax |-> Low32(Shl(rax, 16) \cup Shl(r14, 12)) \cup ToBits(256),
     edx |-> {}]

GhcbCall(entry, reason, value, cbit) ==
    [entry |-> entry, reason |-> reason, value |-> value, cbit |-> cbit,
     how |-> "none", msr |-> [ecx |-> <<0, 0>>, eax |-> {}, edx |-> {}],
     rax |-> {}, r14 |-> {}]

\* The registers the asm block is entered with:
\* _early_debug_panic: in("r14") (reason & 0x7), in("rax") value;
\* _enarx_asm_triple_fault: in("r14") 0x7, in("rax") 0xFF
AsmRax(g) ==
    IF g.entry = "_early_debug_panic" THEN ToBits(g.value) ELSE ToBits(255)
AsmR14(g) ==
    IF g.entry = "_early_debug_panic"
    THEN ToBits(g.reason) \cap ToBits(7)
    ELSE ToBits(7)

\* if get_cbit_mask() > 0 { asm!(.. wrmsr; rep vmmcall ..) }, else
\* load_invalid_idt() and ud2
ShimTerminate ==
    /\ ghcb.how = "none"
    /\ ghcb' = IF ghcb.cbit
               THEN [ghcb EXCEPT !.how = "vmgexit",
                                 !.rax = AsmRax(ghcb), !.r14 = AsmR14(ghcb),
                                 !.msr = VmgExitTerminate(AsmRax(ghcb),
                                                          AsmR14(ghcb))]
               ELSE [ghcb EXCEPT !.how = "triple_fault"]
    /\ UNCHANGED <<kb, snp, boot, subnet>>
    /\ UNCHANGED <<dvars, svars, kvars, wvars, yvars>>

----------------------------------------------------------------------------
\* The SNP Builder: Builder::map and the conversion into a Keep
\* (sev/builder.rs)

\* size_of::<Block>() and Page::SIZE, in units of 1 KiB (stands for 4096
\* bytes), the largest mapping tried, in the same units, and the most
\* mappings of a build
SnpBlockSize == 4
MaxSnpBytes == 9
MaxSnpMaps == 2

\* The segment flags Builder::map tests
SnpFlagSets == {{}, {"SALLYPORT"}, {"CPUID"}, {"SECRETS"},
                {"SALLYPORT", "CPUID"}, {"CPUID", "SECRETS"}}

\* lines 76-83: the addresses pushed to sallyports for the pages
\* for start in (0..pages.size()).step_by(size_of::<Block>()),
\* if start + size_of::<Block>() <= pages.size()
SallyportsOfEveryStart(pages) ==
    [k \in 1 .. (pages.size + SnpBlockSize - 1) \div SnpBlockSize |->
        pages.addr + (k - 1) * SnpBlockSize]
SallyportsOf(pages) ==
    LET starts == {st \in 0 .. pages.size - 1 : st % SnpBlockSize = 0}
        kept == {st \in starts : st + SnpBlockSize <= pages.size}
    IN  [k \in 1 .. Cardinality(kept) |->
            pages.addr + (CHOOSE st \in kept :
                            Cardinality({x \in kept : x < st}) = k - 1)]

\* lines 97-147: the page type of the update
SnpPageType(with) ==
    IF "CPUID" \in with THEN "Cpuid"
    ELSE IF "SECRETS" \in with THEN "Secrets" ELSE "Normal"

\* lines 115-146: the calls of launcher.update_data for a page type, fw[i]
\* telling whether the firmware accepts the i-th call
UpdateCallsNoRetry(type, fw) == <<[type |-> type, ok |-> fw[1]]>>
UpdateCalls(type, fw) ==
    IF type = "Cpuid" /\ ~fw[1]
    THEN <<[type |-> type, ok |-> fw[1]], [type |-> type, ok |-> fw[2]]>>
    ELSE <<[type |-> type, ok |-> fw[1]]>>

SnpNew == [regions |-> <<>>, sallyports |-> <<>>, maps |-> 0,
           pages |-> [addr |-> 0, size |-> 0], with |-> {},
           updates |-> <<>>, res |-> "none", keep |-> FALSE]

\* Builder::map(pages, to, with)
SnpMap ==
    /\ snp.maps < MaxSnpMaps /\ snp.res \in {"none", "Ok"} /\ ~snp.keep
    /\ \E size \in 0 .. MaxSnpBytes, with \in SnpFlagSets,
          registered \in BOOLEAN, imported \in BOOLEAN,
          fw \in [1 .. 2 -> BOOLEAN] :
         LET pages == [addr |-> 1024 * (snp.maps + 1), size |-> size]
             called == [snp EXCEPT !.maps = @ + 1, !.pages = pages,
                                   !.with = with, !.updates = <<>>]
             ported == IF "SALLYPORT" \in with
                       THEN [called EXCEPT
                               !.sallyports = @ \o SallyportsOf(pages)]
                       ELSE called
             type == SnpPageType(with)
             calls == UpdateCalls(type, fw)
             region == [slot |-> Len(snp.regions), memory_size |-> size,
                        userspace_addr |-> pages.addr]
         IN  snp' =
               IF size = 0 THEN [called EXCEPT !.res = "Ok"]
               ELSE IF ~registered THEN [ported EXCEPT !.res = "Err"]
               ELSE IF type \in {"Cpuid", "Secrets"} /\ size # SnpBlockSize
               THEN [ported EXCEPT !.res = "panic"]
               ELSE IF type = "Cpuid" /\ ~imported
               THEN [ported EXCEPT !.res = "Err"]
               ELSE IF calls[Len(calls)].ok
               THEN [ported EXCEPT !.updates = calls, !.res = "Ok",
                                   !.regions = Append(@, region)]
               ELSE [ported EXCEPT !.updates = calls, !.res = "Err"]
    /\ UNCHANGED <<kb, boot, ghcb, subnet>>
    /\ UNCHANGED <<dvars, svars, kvars, wvars, yvars>>

\* Arc<dyn Keep>::try_from(builder): bails out without sallyports; the
\* cpuid, vcpu and launcher.finish calls can fail as well
SnpFinish ==
    /\ snp.res \in {"none", "Ok"} /\ ~snp.keep
    /\ \E finished \in BOOLEAN :
         snp' = IF snp.sallyports = <<>>
                THEN [snp EXCEPT !.res = "NoSallyport"]
                ELSE IF finished
                THEN [snp EXCEPT !.res = "Ok", !.keep = TRUE]
                ELSE [snp EXCEPT !.res = "Err"]
    /\ UNCHANGED <<kb, boot, ghcb, subnet>>
    /\ UNCHANGED <<dvars, svars, kvars, wvars, yvars>>

SnpNext == SnpMap \/ SnpFinish

----------------------------------------------------------------------------
\* netlink: Subnet (subnet.rs).  An address is its family and the set of
\* the positions of its bits that are 1 (bit 0 the least significant of the
\* u32 or u128)

V4Bits == 32
V6Bits == 128

IpAddr(fam, bits) == [fam |-> fam, bits |-> bits]
WidthOf(addr) == IF addr.fam = "V4" THEN V4Bits ELSE V6Bits

Masked(bits) == [panic |-> FALSE, bits |-> bits]
MaskPanic == [panic |-> TRUE, bits |-> {}]

\* Subnet::mask(addr, prefix) in a build with (checks) or without overflow
\* checks: shift = WIDTH - prefix in u8, mask = !0 >> shift << shift,
\* addr & mask.  A subtraction that underflows and a shift by WIDTH or more
\* panic when checked; unchecked the one wraps in u8 and the other takes
\* the shift modulo WIDTH
Mask(addr, prefix, checks) ==
    LET width == WidthOf(addr)
        shift == (width - prefix + 256) % 256
    IN  IF checks /\ (prefix > width \/ shift >= width)
        THEN MaskPanic
        ELSE Masked({b \in addr.bits : b >= shift % width})

SubnetCall(addr, prefix, other, checks) ==
    [addr |-> addr, prefix |-> prefix, other |-> other, checks |-> checks,
     address |-> IpAddr("none", {}), out |-> "none"]

\* Subnet::new(addr, prefix).contains(other)
SubnetNewContains ==
    /\ subnet.out = "none"
    /\ LET new == Mask(subnet.addr, subnet.prefix, subnet.checks)
           address == IpAddr(subnet.addr.fam, new.bits)
           m == Mask(subnet.other, subnet.prefix, subnet.checks)
       IN  subnet' =
             IF new.panic THEN [subnet EXCEPT !.out = "panic"]
             ELSE IF m.panic
             THEN [subnet EXCEPT !.address = address, !.out = "panic"]
             ELSE [subnet EXCEPT
                     !.address = address,
                     !.out = IF IpAddr(subnet.other.fam, m.bits) = address
                             THEN "true" ELSE "false"]
    /\ UNCHANGED <<kb, snp, boot, ghcb>>
    /\ UNCHANGED <<dvars, svars, kvars, wvars, yvars>>

----------------------------------------------------------------------------
\* Thread::balloon on the arguments as the guest wrote them: pow2 is a
\* number, npgs and addr are 64-bit words as the sets of their one bits

UsizeBits == 64

\* let size: usize = 1 << pow2: a shift count of 64 or more is an overflow;
\* with overflow checks it panics, without them the count is taken modulo 64
SizeOf(pow2, checks) ==
    IF pow2 < UsizeBits THEN {pow2}
    ELSE IF checks THEN {UsizeBits} ELSE {pow2 % UsizeBits}

\* size * npgs for size = 1 << shift: the product and whether it overflowed
BytesOf(shift, npgs) ==
    [bits |-> {b + shift : b \in {x \in npgs : x + shift < UsizeBits}},
     overflowed |-> \E x \in npgs : x + shift >= UsizeBits]

BalloonCall(pow2, npgs, addr, checks) ==
    [pow2 |-> pow2, npgs |-> npgs, addr |-> addr, checks |-> checks,
     out |-> "none", wrapped |-> FALSE]

\* Thread::balloon, lines 43-63: the two computations, the check, and the
\* result of Map::map (no bytes: EINVAL; else the mapping or the OS error)
BalloonArith ==
    /\ ball.out = "none"
    /\ LET size == SizeOf(ball.pow2, ball.checks)
           shifted == ball.pow2 >= UsizeBits
           bytes == BytesOf(ball.pow2 % UsizeBits, ball.npgs)
       IN  IF size = {UsizeBits}
           THEN ball' = [ball EXCEPT !.out = "panic"]
           ELSE IF size # {PageShift} \/ \E b \in ball.addr : b < PageShift
           THEN ball' = [ball EXCEPT !.out = "EINVAL", !.wrapped = shifted]
           ELSE IF bytes.overflowed /\ ball.checks
           THEN ball' = [ball EXCEPT !.out = "panic", !.wrapped = shifted]
           ELSE \E res \in IF bytes.bits = {} THEN {"EINVAL"}
                            ELSE {"Ok", "ENOMEM"} :
                   ball' = [ball EXCEPT
                               !.out = res,
                               !.wrapped = shifted \/ bytes.overflowed]
    /\ UNCHANGED notball

----------------------------------------------------------------------------
\* One KVM Keep shared by several Threads: Arc<RwLock<Keep>>

LockThreads == 2            \* Threads that share the Keep
MaxLockRegions == 2         \* regions the shared Keep holds at most

NoSnapshot == [taken |-> FALSE, regions |-> <<>>, memory |-> 0, kvm |-> {}]

\* The Keep as build left it (no region yet), its lock free, every Thread
\* between two requests; kvm: the slots KVM has a region for; granted: the
\* slots of the balloon requests that replied Ok, in order
KcNew ==
    [pc |-> [t \in 1 .. LockThreads |-> "enter"],
     slot |-> [t \in 1 .. LockThreads |-> 0],
     snap |-> [t \in 1 .. LockThreads |-> NoSnapshot],
     writer |-> 0, readers |-> {},
     regions |-> <<>>, memory |-> <<>>, kvm |-> {}, granted |-> <<>>]

\* RwLock::write returns when no other guard is alive
WriteLockShared(k) == TRUE
WriteLockFree(k) == k.writer = 0 /\ k.readers = {}

\* RwLock::read returns when no write guard is alive
ReadLockFree(k) == k.writer = 0

\* Thread::balloon, lines 66-69: self.keep.write().unwrap()
KeepWrite(t) ==
    /\ kc.pc[t] = "enter" /\ WriteLockFree(kc)
    /\ Len(kc.memory) < MaxLockRegions
    /\ kc' = [kc EXCEPT !.pc[t] = "map", !.writer = t]
    /\ UNCHANGED notkc

\* Keep::map, lines 65-75: the region with slot memory.len() is handed to
\* set_user_memory_region; when KVM rejects it `?` returns, the guard drops
KeepMapRegister(t) ==
    /\ kc.pc[t] = "map"
    /\ \E accepted \in BOOLEAN :
          kc' = IF accepted
                THEN [kc EXCEPT !.pc[t] = "push_regions",
                                !.slot[t] = NextSlot(kc.memory),
                                !.kvm = @ \cup {NextSlot(kc.memory)}]
                ELSE [kc EXCEPT !.pc[t] = "enter",
                                !.writer = IF @ = t THEN 0 ELSE @]
    /\ UNCHANGED notkc

\* Keep::map, line 76: self.regions.push(region)
KeepMapPushRegion(t) ==
    /\ kc.pc[t] = "push_regions"
    /\ kc' = [kc EXCEPT !.pc[t] = "push_memory",
                        !.regions = KeepPush(@, Region(kc.slot[t],
                                        4096 * (kc.slot[t] + 1), 4096))]
    /\ UNCHANGED notkc

\* Keep::map, lines 77-79: self.memory.push(pages); Ok(...); back in
\* Thread::balloon the guard drops at the end of the statement and the
\* request replies Ok
KeepMapPushMemory(t) ==
    /\ kc.pc[t] = "push_memory"
    /\ kc' = [kc EXCEPT !.pc[t] = "enter",
                        !.memory = KeepPush(@, Vaddr(kc.slot[t])),
                        !.granted = Append(@, kc.slot[t]),
                        !.writer = IF @ = t THEN 0 ELSE @]
    /\ UNCHANGED notkc

\* Thread::meminfo, line 80: self.keep.read().unwrap()
KeepRead(t) ==
    /\ kc.pc[t] = "enter" /\ ReadLockFree(kc)
    /\ kc' = [kc EXCEPT !.pc[t] = "meminfo", !.readers = @ \cup {t}]
    /\ UNCHANGED notkc

\* Thread::meminfo, lines 78-82: the regions are copied into the Block, then
\* the guard drops; the snapshot here also notes what the Keep and KVM held
\* at the moment of the copy
MemInfoCopy(t) ==
    /\ kc.pc[t] = "meminfo"
    /\ kc' = [kc EXCEPT !.pc[t] = "enter", !.readers = @ \ {t},
                        !.snap[t] = [taken |-> TRUE, regions |-> kc.regions,
                                     memory |-> Len(kc.memory),
                                     kvm |-> kc.kvm]]
    /\ UNCHANGED notkc

KeepLockNext ==
    \E t \in 1 .. LockThreads :
        \/ KeepWrite(t) \/ KeepMapRegister(t) \/ KeepMapPushRegion(t)
        \/ KeepMapPushMemory(t) \/ KeepRead(t) \/ MemInfoCopy(t)

----------------------------------------------------------------------------
\* main.rs: the daemon, its connection threads and the KeepLoader they share
\* as Arc<Mutex<KeepLoader>>.  Thread 0 is the daemon's own thread.

NumConns == 2               \* connections the daemon accepts

KeepLoaderStates == {"UNDEF", "LISTENING", "STARTED", "COMPLETE", "ERROR"}

\* build_keepapploader(.., KEEP_LOADER_STATE_UNDEF, ..) in its Mutex (lock:
\* the threads that hold a guard), and the position of every thread
KeepLoaderNew(daemon, conn) ==
    [state |-> "UNDEF", lock |-> {},
     pc |-> [t \in 0 .. NumConns |-> IF t = 0 THEN daemon ELSE conn],
     ret |-> [t \in 0 .. NumConns |-> "none"],
     desired |-> [t \in 0 .. NumConns |-> "none"],
     ok |-> [t \in 0 .. NumConns |-> FALSE],
     res |-> [t \in 0 .. NumConns |-> "none"],
     entered |-> FALSE, beat |-> 0]

\* set_state, lines 468-502: the table of transitions
TransitionOkAny(state, desired) == desired \in KeepLoaderStates
TransitionOk(state, desired) ==
    IF state = "UNDEF" THEN desired \in {"LISTENING", "ERROR"}
    ELSE IF state = "LISTENING" THEN desired \in {"STARTED", "ERROR"}
    ELSE IF state = "STARTED" THEN desired \in {"COMPLETE", "ERROR"}
    ELSE IF state = "COMPLETE" THEN desired = "ERROR"
    ELSE IF state = "ERROR" THEN desired = "ERROR"
    ELSE FALSE

\* A thread calls set_state(desired, ..) and goes on at ret when it returns
SetStateEnter(t, desired, ret) ==
    kl' = [kl EXCEPT !.pc[t] = "set_state", !.desired[t] = desired,
                     !.ret[t] = ret, !.res[t] = "none"]

\* Some thread calls set_state with some u8
SetStateCall(t) ==
    /\ kl.pc[t] = "caller"
    /\ \E desired \in KeepLoaderStates \cup {"other"} :
          SetStateEnter(t, desired, "caller")
    /\ UNCHANGED notkl

\* set_state, line 447: let mut keep_app = keeploaderapp.lock().unwrap()
SetStateLock(t) ==
    /\ kl.pc[t] = "set_state" /\ kl.lock = {}
    /\ kl' = [kl EXCEPT !.pc[t] = "decide", !.lock = {t}]
    /\ UNCHANGED notkl

\* set_state, lines 448-502: transition_ok is computed from keep_app.state
SetStateDecide(t) ==
    /\ kl.pc[t] = "decide"
    /\ kl' = [kl EXCEPT !.pc[t] = "commit",
                        !.ok[t] = TransitionOk(kl.state, kl.desired[t])]
    /\ UNCHANGED notkl

\* set_state, lines 504-511: the state is assigned or not, the result is
\* returned and the guard drops
SetStateCommit(t) ==
    /\ kl.pc[t] = "commit"
    /\ kl' = [kl EXCEPT !.pc[t] = kl.ret[t], !.lock = @ \ {t},
                        !.state = IF kl.ok[t] THEN kl.desired[t] ELSE @,
                        !.res[t] = IF kl.ok[t] THEN "Ok" ELSE "Err"]
    /\ UNCHANGED notkl

SetStateSteps(t) == SetStateLock(t) \/ SetStateDecide(t) \/ SetStateCommit(t)

\* daemon, lines 252-272: the KeepLoader is built, the socket bound,
\* set_state(KEEP_LOADER_STATE_LISTENING, ..) called and its result printed
DaemonListen ==
    /\ kl.pc[0] = "daemon"
    /\ SetStateEnter(0, "LISTENING", "incoming")
    /\ UNCHANGED notkl

\* daemon, lines 276-281: a connection is accepted and
\* keep_loader_connection spawned on it
DaemonAccept ==
    /\ kl.pc[0] = "incoming"
    /\ \E t \in 1 .. NumConns :
          /\ kl.pc[t] = "off"
          /\ kl' = [kl EXCEPT !.pc[t] = "read"]
    /\ UNCHANGED notkl

\* keep_loader_connection, lines 325-328: the next command of the stream is
\* KEEP_APP_LOADER_START_COMMAND or KEEP_INFO_COMMAND
ConnCommand(t) ==
    /\ kl.pc[t] = "read"
    /\ \E cmd \in {"start", "info"} : kl' = [kl EXCEPT !.pc[t] = cmd]
    /\ UNCHANGED notkl

\* keep_loader_connection, line 325: the client has closed the stream, the
\* iterator ends and the thread with it
ConnClose(t) ==
    /\ kl.pc[t] = "read"
    /\ kl' = [kl EXCEPT !.pc[t] = "closed"]
    /\ UNCHANGED notkl

\* keep_loader_connection, line 356:
\* let child_spawn_result = exec_keep(kal.lock().unwrap().clone());
\* the guard is a temporary of the statement: it drops when exec_keep has
\* returned
ConnStartLock(t) ==
    /\ kl.pc[t] = "start" /\ kl.lock = {}
    /\ kl' = [kl EXCEPT !.pc[t] = "exec_keep", !.lock = {t}]
    /\ UNCHANGED notkl

\* exec_keep, lines 187-192, with a backend that is present: the Keep is
\* built and a thread added, or `?` returns the error and line 372 prints it
ExecKeepBuild(t) ==
    /\ kl.pc[t] = "exec_keep"
    /\ \E built \in BOOLEAN :
          kl' = IF built THEN [kl EXCEPT !.pc[t] = "enter"]
                ELSE [kl EXCEPT !.pc[t] = "read", !.lock = @ \ {t}]
    /\ UNCHANGED notkl

\* exec_keep, lines 193-200: loop { match thread.enter()? { .. } }; the loop
\* has no exit but the error of enter, so exec_keep never returns Ok and the
\* Ok arm of lines 358-370, with its set_state(KEEP_LOADER_STATE_STARTED),
\* is never run
ExecKeepEnter(t) ==
    /\ kl.pc[t] = "enter"
    /\ \E entered \in BOOLEAN :
          kl' = IF entered
                THEN [kl EXCEPT !.entered = TRUE, !.beat = 1 - @]
                ELSE [kl EXCEPT !.pc[t] = "read", !.lock = @ \ {t}]
    /\ UNCHANGED notkl

\* keep_loader_connection, lines 421-434: KEEP_INFO_COMMAND clones the
\* KeepLoader under the lock and writes it to the stream
ConnInfoReply(t) ==
    /\ kl.pc[t] = "info" /\ kl.lock = {}
    /\ kl' = [kl EXCEPT !.pc[t] = "read"]
    /\ UNCHANGED notkl

SetStateNext == \E t \in 1 .. NumConns : SetStateCall(t) \/ SetStateSteps(t)

DaemonNext ==
    \/ DaemonListen \/ DaemonAccept \/ SetStateSteps(0)
    \/ \E t \in 1 .. NumConns :
          \/ ConnCommand(t) \/ ConnStartLock(t) \/ ExecKeepBuild(t)
          \/ ExecKeepEnter(t) \/ ConnInfoReply(t) \/ ConnClose(t)

----------------------------------------------------------------------------
\* shim-sev snp/cpuid_page.rs: CpuidPage.  An entry is the number of the
\* add_entry call that brought it, the default entry is 0

COUNT_MAX == 64
ExtraAdds == 2              \* calls of add_entry beyond COUNT_MAX

\* CpuidPage::default(), with no call made yet; added and at are history:
\* the entries add_entry has accepted, and how many there were when
\* get_functions was last called
CpuidPageDefault ==
    [count |-> 0, functions |-> [i \in 1 .. COUNT_MAX |-> 0],
     calls |-> 0, res |-> "none", got |-> <<>>, at |-> 0, added |-> <<>>]

\* add_entry, line 122: self.entry.count as usize >= COUNT_MAX
PageFullLate(count) == count > COUNT_MAX
PageFull(count) == count >= COUNT_MAX

\* CpuidPage::add_entry(&entry); functions[count] is element count + 1 here
AddEntry ==
    /\ cp.calls < COUNT_MAX + ExtraAdds
    /\ LET entry == cp.calls + 1
       IN  cp' = IF PageFull(cp.count)
                 THEN [cp EXCEPT !.calls = entry, !.res = "Full"]
                 ELSE [cp EXCEPT !.calls = entry, !.res = "Ok",
                                 !.functions[cp.count + 1] = entry,
                                 !.count = @ + 1,
                                 !.added = Append(@, entry)]
    /\ UNCHANGED notcp

\* CpuidPage::get_functions(): &self.entry.functions[..count]
GetFunctions ==
    /\ cp' = [cp EXCEPT !.got = SubSeq(cp.functions, 1, cp.count),
                        !.at = Len(cp.added)]
    /\ UNCHANGED notcp

CpuidPageNext == AddEntry \/ GetFunctions

----------------------------------------------------------------------------
\* Idle values of the components a specification does not run

\* Every component but the one named is idle
XIdleExcept(running) ==
    /\ running = "kb" \/ kb = [KbNew EXCEPT !.res = "idle"]
    /\ running = "snp" \/ snp = [SnpNew EXCEPT !.res = "idle"]
    /\ running = "boot" \/
         boot = [BootCall(Line(0, 0), Span(0, 0), Span(0, 0), FALSE) EXCEPT
                    !.out = BootOut("idle", NoBootInfo, FALSE)]
    /\ running = "ghcb" \/
         ghcb = [GhcbCall("none", 0, 0, FALSE) EXCEPT !.how = "idle"]
    /\ running = "subnet" \/
         subnet = [SubnetCall(IpAddr("none", {}), 0, IpAddr("none", {}),
                              FALSE) EXCEPT !.out = "idle"]
    /\ running = "kc" \/
         kc = [KcNew EXCEPT !.pc = [t \in 1 .. LockThreads |-> "idle"]]
    /\ running = "ball" \/
         ball = [BalloonCall(0, {}, {}, FALSE) EXCEPT !.out = "idle"]
    /\ running = "kl" \/ kl = [KeepLoaderNew("off", "off") EXCEPT !.state = "idle"]
    /\ running = "cp" \/ cp = [CpuidPageDefault EXCEPT !.res = "idle"]
XIdle == XIdleExcept("none")
OldIdle == DIdle /\ SIdle /\ KIdle /\ WIdle

----------------------------------------------------------------------------
\* Specifications

\* The build of one KVM Keep
InitKvmBuild == OldIdle /\ XIdleExcept("kb") /\ kb = KbNew
SpecKvmBuild == InitKvmBuild /\ [][BuilderMap]_vars

\* The build of one SNP Keep
InitSnpBuild == OldIdle /\ XIdleExcept("snp") /\ snp = SnpNew
SpecSnpBuild == InitSnpBuild /\ [][SnpNext]_vars

\* One Subnet::new(addr, prefix).contains(other), for a valid prefix of
\* addr's family
InitSubnet ==
    /\ OldIdle /\ XIdleExcept("subnet")
    /\ LET addrs ==
             {IpAddr("V4", b) : b \in {{}, {0}, {31}, {0, 8, 31}}} \cup
             {IpAddr("V6", b) : b \in {{}, {0}, {127}, {0, 64, 127}}}
       IN  \E addr \in addrs, other \in addrs, checks \in BOOLEAN :
             \E prefix \in 0 .. WidthOf(addr) :
                subnet = SubnetCall(addr, prefix, other, checks)
SpecSubnet == InitSubnet /\ [][SubnetNewContains]_vars

\* One termination of the SEV shim
InitGhcb ==
    /\ OldIdle /\ XIdleExcept("ghcb")
    /\ \E cbit \in BOOLEAN :
         \/ \E reason \in 0 .. 15,
               value \in {0, 1, 127, 255, 256, 65535, 65536} :
               ghcb = GhcbCall("_early_debug_panic", reason, value, cbit)
         \/ ghcb = GhcbCall("_enarx_asm_triple_fault", 0, 0, cbit)
SpecGhcb == InitGhcb /\ [][ShimTerminate]_vars

\* One call of BootInfo::calculate
InitBoot ==
    /\ OldIdle /\ XIdleExcept("boot")
    /\ \E e \in {0, 4096, 4097, MAX_SETUP_SIZE - 1, MAX_SETUP_SIZE,
                  UsizeLimit - MAX_SETUP_SIZE},
          sc \in {0, 16, 1048576, UsizeLimit - 2 * MAX_SETUP_SIZE,
                   UsizeLimit - MAX_SETUP_SIZE - PageSize,
                   UsizeLimit - MAX_SETUP_SIZE - 1,
                   UsizeLimit - MAX_SETUP_SIZE},
          cc \in {0, 16, 4096, MAX_SETUP_SIZE - 2 * PageSize,
                   MAX_SETUP_SIZE - PageSize, UsizeLimit - 1},
          checks \in BOOLEAN :
         boot = BootCall(Line(0, e), Span(0, sc), Span(0, cc), checks)
SpecBoot == InitBoot /\ [][BootCalculate]_vars

\* One call of the shim dispatcher
InitShim == DInit /\ SIdle /\ KIdle /\ WIdle /\ XIdle
SpecShim == InitShim /\ [][DispatchCall]_vars

\* One SGX Keep with its Thread
InitSgx == DIdle /\ SInit /\ KIdle /\ WIdle /\ XIdle
SpecSgx == InitSgx /\ [][SNext]_vars

\* One SGX Keep whose shim is entered for every exception of the payload
SpecSgxAnyEntry == InitSgx /\ [][SNextAnyEntry]_vars

\* One KVM Keep with its Threads
InitKvm == DIdle /\ SIdle /\ KInit /\ WIdle /\ XIdle

\* One call of Thread::balloon from Thread::enter
InitBalloon == DIdle /\ SIdle /\ KBalloonInit /\ WIdle /\ XIdle
SpecBalloon == InitBalloon /\ [][BalloonNext]_vars

\* A CpuidPage that is filled and read
InitCpuidPage == OldIdle /\ XIdleExcept("cp") /\ cp = CpuidPageDefault
SpecCpuidPage == InitCpuidPage /\ [][CpuidPageNext]_vars

\* Connection threads calling set_state with any value, from the state the
\* daemon creates the KeepLoader in
InitSetState ==
    OldIdle /\ XIdleExcept("kl") /\ kl = KeepLoaderNew("off", "caller")
SpecSetState == InitSetState /\ [][SetStateNext]_vars

\* The daemon and its connections.  Every thread that can run does so
\* (the scheduler), and a thread that waits for the Mutex gets it if it is
\* free again and again; which commands a client sends is left open
InitDaemon == OldIdle /\ XIdleExcept("kl") /\ kl = KeepLoaderNew("daemon", "off")
SpecDaemonFair ==
    /\ InitDaemon /\ [][DaemonNext]_vars
    /\ WF_vars(DaemonListen \/ DaemonAccept)
    /\ \A t \in 0 .. NumConns :
          /\ WF_vars(SetStateDecide(t) \/ SetStateCommit(t))
          /\ WF_vars(ExecKeepBuild(t) \/ ExecKeepEnter(t))
          /\ SF_vars(SetStateLock(t) \/ ConnStartLock(t) \/ ConnInfoReply(t))

\* Thread::balloon on every kind of argument, compiled with and without
\* overflow checks
InitBalloonArith ==
    /\ OldIdle /\ XIdleExcept("ball")
    /\ \E pow2 \in {0, 11, 12, 13, 63, 64, 76, 140},
          npgs \in {{}, {0}, {1}, {0, 1}, {51}, {52}, {0, 52}, {63}},
          addr \in {{}, {0}, {11}, {12}, {12, 40}, {63}},
          checks \in BOOLEAN :
          ball = BalloonCall(pow2, npgs, addr, checks)
SpecBalloonArith == InitBalloonArith /\ [][BalloonArith]_vars

\* The Threads of one KVM Keep serving balloon and mem_info requests
InitKeepLock == OldIdle /\ XIdleExcept("kc") /\ kc = KcNew
SpecKeepLock == InitKeepLock /\ [][KeepLockNext]_vars

\* A KVM Keep while it is built, or while it serves a balloon request
InitKvmKeep == InitKvmBuild \/ InitBalloon
SpecKvmKeep == InitKvmKeep /\ [][BuilderMap \/ BalloonNext]_vars

\* One call of write_str
InitWriteStr == DIdle /\ SIdle /\ KIdle /\ WInit /\ XIdle
SpecWriteStr == InitWriteStr /\ [][WNext]_vars
SpecKvm == InitKvm /\ [][KNext]_vars

\* Any one of the four
Init == InitShim \/ InitSgx \/ InitKvm \/ InitWriteStr
Next == DispatchCall \/ SNext \/ KNext \/ WNext
Spec == Init /\ [][Next]_vars

----------------------------------------------------------------------------
\* Properties

\* A result of handle_syscall in rax that is not a negated errno
SavedRaxIsOk(g) == g.rax < UsizeLimit - 4095

\* C1: a call of the dispatcher with nr < 0xEA00 that returns Ok(ret) has
\* ret[1] equal to its third argument c, whatever the handler returned; and
\* when handle_syscall has completed a successful Linux syscall the payload's
\* saved rdx is the rdx it trapped with.
C1_RdxPreserved ==
    /\ (dret.called /\ dret.res.ok /\ dargs[7] < ENARX_BASE)
          => dret.res.ret[2] = dargs[3]
    /\ (epc = "sys_done" /\ strap.rax < ENARX_BASE /\ SavedRaxIsOk(ssa))
          => ssa.rdx = strap.rdx

\* A proxied write completed with the host's Ok(3, 9): rax is 3 and rdx is
\* the payload's own rdx, not the host's 9
C1_Witness ==
    /\ epc = "sys_done" /\ strap.rax = SYS_write
    /\ ssa.rax = 3 /\ strap.rdx = 3 /\ ssa.rdx = 3

\* C2 (as claimed): at an IoOut exit on the trigger port, the request the
\* KVM Thread::enter dispatches on is the one the Block holds at that exit.
C2_DispatchOnExitContents ==
    \A t \in HostThreads :
        (kth[t].pc = "exit" /\ IsProxyExit(kth[t].exit))
            => kth[t].req = kblock[kth[t].cpu]

\* C3: between two calls of enter, a Command::SysCall has had exactly one
\* reply written by the outer loop and a Command::Continue none; enter is
\* only called from these states.
C3_ReplyBeforeReenter ==
    /\ (spc = "call" /\ scmd.cmd = "SysCall") => scmd.writes = 1
    /\ \A t \in HostThreads :
          kth[t].pc = "live" =>
              /\ kth[t].cmd = "SysCall" => kth[t].writes = 1
              /\ kth[t].cmd = "Continue" => kth[t].writes = 0

C3_Witness ==
    \E t \in HostThreads :
        kth[t].pc = "live" /\ kth[t].cmd = "SysCall" /\ kth[t].writes = 1

C5_NoSharedCpu ==
    /\ \A t1, t2 \in HostThreads :
          (t1 # t2 /\ kth[t1].cpu # NoCpu) => kth[t1].cpu # kth[t2].cpu
    /\ \A t \in HostThreads, i \in 1 .. Len(cpus) : kth[t].cpu # cpus[i]
    /\ \A i, j \in 1 .. Len(cpus) : i # j => cpus[i] # cpus[j]

\* One Thread is live while another spawn was refused
C5_Witness ==
    \E t1, t2 \in HostThreads :
        /\ t1 # t2
        /\ kth[t1].cpu # NoCpu /\ kth[t1].pc = "run"
        /\ kth[t2].none >= 0

\* C6: live Threads plus pooled slots are the slots built, and a spawn that
\* returned Ok(None) found every slot leased.
C6_SlotsConserved ==
    /\ Cardinality(LiveThreads) + Len(cpus) = NumCpus
    /\ \A t \in HostThreads : kth[t].none >= 0 => kth[t].none = NumCpus

\* A spawn was refused, and since then every slot has come back to the pool
C6_Witness ==
    /\ Len(cpus) = NumCpus
    /\ \E t \in HostThreads : kth[t].none = NumCpus

\* C7: the enclave is entered with Resume exactly when the loop last met an
\* OK exit with SYS_ENARX_ERESUME; the first entry of a call and the entries
\* after an InvalidOpcode AEX, a cpuid or an attestation request use Enter.
C7_ResumeOnlyAfterEresume ==
    /\ sentry.how \in {"none", "Enter", "Resume"}
    /\ sentry.how = "Resume" => sentry.after = "eresume"
    /\ sentry.after = "eresume" => sentry.how = "Resume"
    /\ sentry.after \in {"first", "aex_ud", "cpuid", "getatt"}
          => sentry.how = "Enter"

C7_Witness ==
    srun /\ sentry = [how |-> "Resume", after |-> "eresume"]

\* C8: Thread::enter leaves an exit with Command::SysCall exactly when the
\* exit is OK and the request number is none of CPUID, GETATT, ERESUME.
C8_SysCallExactly ==
    [][(spc = "exit" /\ spc' # "exit") =>
          ((spc' = "cmd") <=>
              /\ sexit = ExitOk
              /\ sblock[1] \notin {SYS_ENARX_CPUID, SYS_ENARX_GETATT,
                                   SYS_ENARX_ERESUME})]_vars

C8_Witness ==
    spc = "cmd" /\ scmd.cmd = "SysCall" /\ scmd.num = SYS_write

\* C9: the shim stages SYS_ENARX_CPUID with the payload's rax and rcx; once
\* handle_cpuid has completed, the saved rax, rbx, rcx, rdx are eax, ebx,
\* ecx, edx of the host's cpuid(leaf, subleaf), and the entry that completed
\* it was an Enter after the host served the cpuid request.
C9_CpuidRoundTrip ==
    /\ (epc = "cpuid" /\ spc = "exit")
          => sblock = Req(SYS_ENARX_CPUID, strap.rax, strap.rcx, 0, 0)
    /\ epc = "cpuid_done"
          => LET r == CpuidCount(strap.rax, strap.rcx)
             IN  /\ ssa.rax = r.eax /\ ssa.rbx = r.ebx
                 /\ ssa.rcx = r.ecx /\ ssa.rdx = r.edx
    /\ (epc = "cpuid_done" /\ spc = "exit")
          => sentry = [how |-> "Enter", after |-> "cpuid"]

C9_Witness ==
    /\ epc = "cpuid_done" /\ strap.rax = 1 /\ strap.rcx = 0
    /\ ssa.rax = CpuidCount(1, 0).eax /\ ssa.rdx = CpuidCount(1, 0).edx

\* C10 (amended): an AEX whose trap is not InvalidOpcode makes Thread::enter
\* panic, and the enclave is not entered again by that call.
C10_OtherAexPanics ==
    /\ slast = "aex_other" => (spc = "panic" /\ ~srun)
    /\ sentry.after # "aex_other"

C10_Witness ==
    slast = "aex_other" /\ sexit = ExitAex("PageFault") /\ spc = "panic"

\* C10 (as claimed): such an AEX makes Thread::enter return Err to its caller.
C10_OtherAexReturnsErr ==
    slast = "aex_other" => spc = "err"

C12_OtherExitsErr ==
    [][\A t \in HostThreads :
          (kth[t].pc = "exit" /\ kth'[t].pc # "exit") =>
              IF kth[t].exit.kind = "IoOut" /\ kth[t].exit.port = 255
              THEN kth'[t].pc \in {"cmd", "cont"}
              ELSE /\ kth'[t].pc = "err"
                   /\ kth'[t].err = kth[t].exit
                   /\ kblock' = kblock]_vars

\* enter has returned Err for an IoOut on a port other than 0xFF
C12_Witness ==
    \E t \in HostThreads :
        /\ kth[t].pc = "err"
        /\ kth[t].err.kind = "IoOut" /\ kth[t].err.port # 255

\* C13 (as claimed): at a proxy-request exit the KVM Thread::enter serves the
\* request the Block holds by its number: SYS_ENARX_BALLOON_MEMORY and
\* SYS_ENARX_MEM_INFO are answered by the host (Command::Continue), any other
\* number is returned as Command::SysCall with the Block unmodified.
C13_ServedByNumber ==
    [][\A t \in HostThreads :
          (kth[t].pc = "exit" /\ kth'[t].pc # "exit"
             /\ kth[t].exit.kind = "IoOut" /\ kth[t].exit.port = 255) =>
              LET num == kblock[kth[t].cpu][1]
              IN  IF num \in {SYS_ENARX_BALLOON_MEMORY, SYS_ENARX_MEM_INFO}
                  THEN kth'[t].pc = "cont"
                  ELSE kth'[t].pc = "cmd" /\ kblock' = kblock]_vars

\* C14: when the shim has serviced a trapped syscall or cpuid instruction the
\* saved rip is exactly 2 greater than at the trap, and it still is when the
\* payload has been resumed: the instruction is stepped over once.
C14_RipAdvancedOnce ==
    epc \in {"sys_done", "cpuid_done", "resumed"} => ssa.rip = strap.rip + 2

\* The payload resumed behind a syscall instruction at 8192
C14_Witness ==
    epc = "resumed" /\ strap.rip = 8192 /\ ssa.rip = 8194

\* C15 (as claimed): the shim answers an InvalidOpcode exception raised by
\* an instruction other than syscall or cpuid with ud2 at once: the host
\* observes an AEX with trap InvalidOpcode, and the Block is as it was, with
\* no request staged in it.
C15_Ud2WithoutRequest ==
    [][(epc = "ud_other" /\ epc' # "ud_other")
          => (sexit' = ExitAex(InvalidOpcode) /\ sblock' = sblock)]_vars

\* C16: when handle_syscall completes a trapped syscall that failed with
\* errno e, the saved registers are those of the trap except rax, which is
\* -e, and rip, which is 2 greater; rdx is the rdx of the trap.  The errno
\* of a proxied syscall is the one in the host's reply.
C16_ErrnoSurfaced ==
    [][(epc # "sys_done" /\ epc' = "sys_done" /\ ~SavedRaxIsOk(ssa')) =>
          LET e == UsizeLimit - ssa'.rax
          IN  /\ e \in 1 .. 4095
              /\ ssa' = [strap EXCEPT !.rax = UsizeLimit - e,
                                      !.rip = strap.rip + 2]
              /\ ssa'.rdx = strap.rdx
              /\ epc = "proxy" => e = sblock[3]]_vars

\* A proxied write the host failed with EBADF
C16_Witness ==
    /\ epc = "sys_done" /\ strap.rax = SYS_write
    /\ ssa.rax = UsizeLimit - 9 /\ ssa.rdx = strap.rdx

\* C17: a call of write_str with an empty string succeeds without a proxied
\* request; otherwise, for the n bytes proxied, a reply of more than n ends
\* in attacked(), a reply of exactly n is success, and a smaller count or an
\* error reply is a failure that does not end the Keep.
C17_WriteStrReply ==
    wpc = "done" =>
        LET n == Len(wstr)
        IN  /\ n = 0 => (wout = "Ok" /\ wreq = NoWrite)
            /\ wreq # NoWrite =>
                  /\ wreq.len = n /\ wreq.buf = wstr
                  /\ (wrep.ok /\ wrep.ret[1] > n) => wout = "attacked"
                  /\ (wrep.ok /\ wrep.ret[1] = n) => wout = "Ok"
                  /\ (~wrep.ok \/ wrep.ret[1] < n) => wout = "Err"

\* The host claimed to have written 3 bytes of a string of 2
C17_Witness ==
    wpc = "done" /\ Len(wstr) = 2 /\ wrep = Ok(3, 0) /\ wout = "attacked"

\* C18: a call of the dispatcher with a number that has no arm (SYS_mremap
\* and every number from 0xEA00 on but SYS_ENARX_GETATT among them) calls
\* unknown_syscall with the seven raw values of the call, invokes no handler
\* and returns Err(ENOSYS).
C18_UnknownIsEnosys ==
    (dret.called /\ dret.res # NoCall
       /\ \/ dargs[7] \notin TableNrs
          \/ dargs[7] = SYS_mremap
          \/ (dargs[7] >= 59904 /\ dargs[7] # SYS_ENARX_GETATT))
      => /\ dret.res = Err(ENOSYS)
         /\ dret.diag = dargs
         /\ dret.hargs = <<>>

\* mremap called with a first argument that fits no C int
C18_Witness ==
    /\ dret.called /\ dargs[7] = SYS_mremap /\ dargs[1] = U32Limit + 3
    /\ dret.res = Err(ENOSYS) /\ dret.diag = dargs

\* C19 (as claimed): a call whose arm narrows an argument that does not fit
\* a C int returns Err(EINVAL) and invokes no handler.
C19_NarrowingIsEinval ==
    (dret.called
       /\ \E i \in TryIntoArgs(dargs[7]) \cup AsCastArgs(dargs[7]) :
             dargs[i] >= I32Limit)
      => (dret.res = Err(EINVAL) /\ dret.hargs = <<>>)

C22_ListsAppendOnly ==
    [][/\ Len(regions') >= Len(regions)
       /\ SubSeq(regions', 1, Len(regions)) = regions
       /\ Len(memory') >= Len(memory)
       /\ SubSeq(memory', 1, Len(memory)) = memory
       /\ (regions' # regions \/ memory' # memory) =>
             /\ Len(regions') = Len(regions) + 1
             /\ Len(memory') = Len(memory) + 1
             /\ \E t \in HostThreads :
                   /\ kth[t].pc = "exit" /\ kth'[t].pc = "cont"
                   /\ kth[t].req[1] = SYS_ENARX_BALLOON_MEMORY
                   /\ RepRead(kblock'[kth[t].cpu]).ok]_vars

\* A Thread of the built Keep has served a balloon request: the Keep has a
\* second region behind the one it was built with
C22_Witness ==
    /\ Len(regions) = 2 /\ Len(memory) = 2
    /\ regions[1] = Region(0, 0, 2 ^ PageShift)
    /\ \E t \in HostThreads : kth[t].pc = "cont" /\ kth[t].maps = 1

\* C22 (as claimed): no operation on a built Keep adds, removes or changes an
\* entry of memory or regions.
C22_ListsReadOnly ==
    [][regions' = regions /\ memory' = memory]_vars

\* C23: every execution slot of a KVM Keep is bound at build time to its own
\* sallyport Block: the Builder has one Cpu per Block of the flagged segments
\* it has mapped, each Cpu refers to one of those Blocks, and no two Cpus
\* refer to the same Block.
C23_OneCpuPerBlock ==
    kb.res = "Ok" =>
        /\ Len(kb.cpus) = Cardinality(kb.flagged)
        /\ \A i \in 1 .. Len(kb.cpus) : kb.cpus[i].block \in kb.flagged
        /\ \A i, j \in 1 .. Len(kb.cpus) :
              i # j => kb.cpus[i].block # kb.cpus[j].block

\* C24: whenever BootInfo::calculate returns Ok,
\* setup.end <= shim.start <= shim.end <= code.start <= code.end <= mem_size,
\* shim.start is a multiple of 2 MiB, and code.start and mem_size are
\* multiples of the page size.
C24_LayoutMonotone ==
    boot.out.res = "Ok" =>
        LET b == boot.out.info
        IN  /\ b.setup.end <= b.shim.start
            /\ b.shim.start <= b.shim.end
            /\ b.shim.end <= b.code.start
            /\ b.code.start <= b.code.end
            /\ b.code.end <= b.mem_size
            /\ b.shim.start % MAX_SETUP_SIZE = 0
            /\ b.code.start % PageSize = 0
            /\ b.mem_size % PageSize = 0

\* C25: any arithmetic overflow while the layout is computed (in raise, in
\* above, or when the end = start + count of the shim or code span is formed)
\* makes BootInfo::calculate return Err(NoMemory): no panic, no wrapped
\* boundary.
C25_OverflowIsNoMemory ==
    boot.out.overflowed => boot.out.res = "NoMemory"

C27_GhcbTerminationValue ==
    ghcb.how = "vmgexit" =>
        /\ ghcb.msr.ecx = <<49153, 304>>
        /\ ghcb.msr.edx = {}
        /\ Field(ghcb.msr.eax, 0, 11) = ToBits(256)
        /\ Field(ghcb.msr.eax, 12, 15) = ToBits(1)
        /\ Field(ghcb.msr.eax, 16, 23) = Field(ghcb.rax, 0, 7)
        /\ Field(ghcb.msr.eax, 24, 31) = {}

\* C28: during SNP Builder::map of a CPUID-flagged region the firmware
\* update is attempted at most twice: a rejected first update_data is
\* retried exactly once, a second rejection makes map return an error
\* without the region being recorded in regions; regions of any other type
\* are never retried.
C28_CpuidRetriedOnce ==
    [][snp'.maps = snp.maps + 1 =>
          LET u == snp'.updates
          IN  /\ Len(u) <= 2
              /\ \A i \in 1 .. Len(u) : u[i].type = SnpPageType(snp'.with)
              /\ "CPUID" \notin snp'.with => Len(u) <= 1
              /\ Len(u) = 2 <=> ("CPUID" \in snp'.with /\ Len(u) >= 1
                                    /\ ~u[1].ok)
              /\ (Len(u) >= 1 /\ ~u[Len(u)].ok) =>
                    (snp'.res = "Err" /\ snp'.regions = snp.regions)
              /\ (Len(u) >= 1 /\ u[Len(u)].ok) =>
                    (snp'.res = "Ok" /\ Len(snp'.regions) = Len(snp.regions) + 1)
       ]_vars

\* map of a CPUID page has failed after two rejected updates
C28_Witness ==
    /\ "CPUID" \in snp.with /\ snp.res = "Err"
    /\ Len(snp.updates) = 2 /\ ~snp.updates[1].ok /\ ~snp.updates[2].ok
    /\ snp.regions = <<>>

\* C29: SNP Builder::map of a non-empty SALLYPORT-flagged region of n bytes
\* appends exactly floor(n / size_of(Block)) addresses to sallyports,
\* base + k * size_of(Block) for k = 0, 1, .. in increasing order; regions
\* without the flag and empty regions append none; and finishing a builder
\* with no recorded sallyport fails instead of producing a Keep.
C29_SallyportsRecorded ==
    [][/\ snp'.maps = snp.maps + 1 =>
            LET n == snp'.pages.size
                base == snp'.pages.addr
            IN  snp'.sallyports = snp.sallyports \o
                    IF "SALLYPORT" \in snp'.with /\ n > 0
                    THEN [k \in 1 .. n \div SnpBlockSize |->
                             base + (k - 1) * SnpBlockSize]
                    ELSE <<>>
       /\ snp'.maps = snp.maps =>
            /\ snp'.sallyports = snp.sallyports
            /\ snp.sallyports = <<>> =>
                  (snp'.res = "NoSallyport" /\ ~snp'.keep)
       ]_vars

\* A SALLYPORT region of two Blocks and a partial third has been mapped
C29_Witness ==
    /\ "SALLYPORT" \in snp.with /\ snp.pages.size = 2 * SnpBlockSize + 1
    /\ snp.sallyports = <<snp.pages.addr, snp.pages.addr + SnpBlockSize>>

\* C30: for every address addr and every valid prefix length p (0..=32 for
\* IPv4, 0..=128 for IPv6), Subnet::new(addr, p).contains(addr) evaluates to
\* true; it does not fail for p = 0 or p = the full length.
C30_ContainsOwnAddress ==
    (subnet.out \notin {"none", "idle"} /\ subnet.other = subnet.addr)
        => subnet.out = "true"

\* C31: in every reachable state of a KVM Keep, during build and during
\* ballooning, memory and regions have the same length and the region at
\* index i carries slot number i (counted from 0), so no two regions share a
\* slot and the assertion at the top of Keep::map holds.
C31_ListsAligned ==
    LET Aligned(mem, regs) ==
            /\ Len(mem) = Len(regs)
            /\ \A i \in 1 .. Len(regs) : regs[i].slot = i - 1
    IN  Aligned(memory, regions) /\ Aligned(kb.memory, kb.regions)

\* The Builder has mapped its second segment
C31_Witness ==
    /\ Len(kb.regions) = 2 /\ Len(kb.memory) = 2
    /\ kb.regions[1].slot = 0 /\ kb.regions[2].slot = 1

\* C32: a balloon request that fails (EINVAL, allocation failure, or
\* Keep::map failing because KVM rejects the region) leaves memory and
\* regions exactly as they were, and whenever a map succeeds its region takes
\* the slot number that equals the length of the lists before it, so the slot
\* a failed call would have used goes to the next successful map.
C32_FailedMapLeavesKeep ==
    [][/\ \A t \in HostThreads :
             (/\ kth[t].pc = "exit" /\ kth'[t].pc = "cont"
              /\ kth[t].req[1] = SYS_ENARX_BALLOON_MEMORY
              /\ ~RepRead(kblock'[kth[t].cpu]).ok)
             => regions' = regions /\ memory' = memory
       /\ Len(regions') > Len(regions) =>
             /\ regions'[Len(regions')].slot = Len(regions)
             /\ Len(memory') = Len(regions')]_vars

\* A Thread has a balloon request refused after the memory was allocated, on
\* a Keep that an earlier request has grown to two regions
C32_Witness ==
    /\ Len(regions) = 2 /\ regions[2].slot = 1
    /\ \E t \in HostThreads :
          /\ kth[t].pc = "cont" /\ kth[t].maps = 1
          /\ ~RepRead(kblock[kth[t].cpu]).ok

\* C33: when several Threads of one Keep serve balloon and mem_info requests
\* concurrently, every balloon that replied Ok got a slot number no other
\* got, its region is in regions exactly once, and every mem_info snapshot
\* was taken of lists of equal length that held a region for every slot
\* KVM had been given.
C33_ConcurrentKeepConsistent ==
    LET slots(regs) == {regs[i].slot : i \in 1 .. Len(regs)}
        times(slot, regs) ==
            Cardinality({i \in 1 .. Len(regs) : regs[i].slot = slot})
    IN  /\ \A i, j \in 1 .. Len(kc.granted) :
              i # j => kc.granted[i] # kc.granted[j]
        /\ \A i \in 1 .. Len(kc.granted) :
              times(kc.granted[i], kc.regions) = 1
        /\ \A t \in 1 .. LockThreads :
              kc.snap[t].taken =>
                  /\ Len(kc.snap[t].regions) = kc.snap[t].memory
                  /\ kc.snap[t].kvm = slots(kc.snap[t].regions)
                  /\ \A sl \in kc.snap[t].kvm :
                        times(sl, kc.snap[t].regions) = 1

\* Two Threads have each had a balloon request granted, and one of them
\* holds a mem_info snapshot of both regions
C33_Witness ==
    /\ Len(kc.granted) = 2 /\ Len(kc.regions) = 2
    /\ \E t \in 1 .. LockThreads :
          kc.snap[t].taken /\ Len(kc.snap[t].regions) = 2

\* C34: Thread::balloon ends in a reply (success or an errno) for every
\* 64-bit pow2, npgs and addr the guest can choose: neither 1 << pow2 nor
\* size * npgs overflows, wraps or panics in the host.
C34_BalloonArithmeticSafe ==
    ball.out \notin {"idle", "none"} =>
        ball.out \in {"Ok", "EINVAL", "ENOMEM"} /\ ~ball.wrapped

\* C35: the SGX host completes SYS_ENARX_CPUID for every value the shim can
\* stage: whatever the payload's 64-bit rax and rcx held, the host's
\* narrowing of arg[0] and arg[1] to 32 bits does not abort it.
C35_CpuidNarrowingNeverAborts ==
    (sexit = ExitOk /\ sblock[1] = SYS_ENARX_CPUID) => spc # "panic"

\* C36: for every setup line with setup.end < 2 MiB, the empty setup with
\* setup.end = 0 included, a successful BootInfo::calculate places the shim
\* at or above 2 MiB, so that neither shim nor code lies inside the
\* unencrypted first 2 MiB.
C36_ShimAboveSetupArea ==
    (boot.out.res = "Ok" /\ boot.setup.end < MAX_SETUP_SIZE)
        => /\ boot.out.info.shim.start >= MAX_SETUP_SIZE
           /\ boot.out.info.code.start >= MAX_SETUP_SIZE

\* C37: Subnet::new(a, p).contains(b) is true exactly when a and b are of
\* the same address family and agree on their top p bits; so a subnet of
\* prefix 0 contains every address of its family and one of the full-length
\* prefix contains only a.
C37_ContainsIffTopBitsAgree ==
    subnet.out \notin {"idle", "none"} =>
        LET width == WidthOf(subnet.addr)
            top == (width - subnet.prefix) .. (width - 1)
            agree == /\ subnet.addr.fam = subnet.other.fam
                     /\ \A b \in top :
                           b \in subnet.addr.bits <=> b \in subnet.other.bits
        IN  subnet.out = IF agree THEN "true" ELSE "false"

\* C38: set_state moves the keep-loader state only along UNDEF -> LISTENING
\* -> STARTED -> COMPLETE or from any state to ERROR, and ERROR is never
\* left; a call that asks for any other transition returns Err and leaves
\* the state as it was, also when several threads call set_state at once.
C38_StateMachineOrder ==
    [][LET Allowed(from, to) ==
               \/ <<from, to>> \in {<<"UNDEF", "LISTENING">>,
                                     <<"LISTENING", "STARTED">>,
                                     <<"STARTED", "COMPLETE">>}
               \/ to = "ERROR"
       IN  /\ kl'.state # kl.state => Allowed(kl.state, kl'.state)
           /\ kl.state = "ERROR" => kl'.state = "ERROR"
           /\ \A t \in 0 .. NumConns :
                 (kl.pc[t] = "commit" /\ kl'.pc[t] # "commit") =>
                    IF Allowed(kl.state, kl.desired[t])
                    THEN kl'.res[t] = "Ok" /\ kl'.state = kl.desired[t]
                    ELSE kl'.res[t] = "Err" /\ kl'.state = kl.state]_vars

\* The state has gone all the way to COMPLETE while another thread's request
\* was refused
C38_Witness ==
    /\ kl.state = "COMPLETE"
    /\ \E t, u \in 1 .. NumConns :
          /\ t # u /\ kl.res[t] = "Err" /\ kl.res[u] = "Ok"
          /\ kl.desired[u] = "COMPLETE"

\* C39: after a start command whose Keep is built and entered, the
\* keep-loader state eventually becomes STARTED, and an information request
\* on another connection is answered while that Keep runs.
C39_StartedAndStillAnswering ==
    /\ kl.entered ~> (kl.state = "STARTED")
    /\ \A t \in 1 .. NumConns : (kl.pc[t] = "info") ~> (kl.pc[t] = "read")

\* C40: a CpuidPage never holds more than 64 entries: add_entry stores the
\* entry at index count and increments count while count < 64; on a full
\* page it returns Error::Full and leaves count and the stored entries as
\* they were; get_functions returns exactly the entries added so far, in
\* the order they were added.
C40_CpuidPageBounded ==
    /\ cp.count <= 64
    /\ cp.count = Len(cp.added)
    /\ \A i \in 1 .. cp.count : cp.functions[i] = cp.added[i]
    /\ cp.res = "Full" => cp.count = 64
    /\ (cp.res = "Ok" /\ cp.calls <= 64) => cp.added[cp.count] = cp.calls
    /\ cp.got = SubSeq(cp.added, 1, cp.at)

\* add_entry has been refused on a full page and get_functions has
\* returned all 64 entries
C40_Witness ==
    /\ cp.res = "Full" /\ cp.count = 64
    /\ Len(cp.got) = 64 /\ cp.got[1] = 1 /\ cp.got[64] = 64

====
